---- MODULE Spec2Model ----
(***************************************************************************)
(* chat2qwen / chat2table: a two-stage prompt chain (recognition, then     *)
(* analysis) around a hosted vision/language model.                        *)
(*                                                                         *)
(* Two generations of the same classes live in the repository:             *)
(*   "chat2table" : src/src/chat2table/{models,chains}/...                 *)
(*   "legacy"     : src/{models,chains}/...   (imported by src/main.py)    *)
(* Both are modelled; the variant is a field of the object.                *)
(*                                                                         *)
(* Python text and byte strings are sequences of tokens.  A dict is a      *)
(* record: `"k" in d` is  "k" \in DOMAIN d.  Every handler is one action:  *)
(* the calls it makes to the outside world (download, recognition model,   *)
(* analysis model, log lines) are recorded, in order, in last.events, and  *)
(* which of those calls fail is an input of the action (a failure plan).   *)
(***************************************************************************)
EXTENDS Integers, Sequences, FiniteSets, TLC

VARIABLES
    env,        \* os.environ["DASHSCOPE_API_KEY"] (None when unset)
    dotenv,     \* DASHSCOPE_API_KEY of the .env file (None: no such file)
    config,     \* the ModelConfig object, or NoConfig
    processor,  \* the ImageProcessingChain object, or NoProcessor
    loggers,    \* the logging module's loggers, by name: level and handlers
    last        \* the invocation that just ran: op, inputs, outcome, events

vars == <<env, dotenv, config, processor, loggers, last>>

\* ---------------------------------------------------------------- bounds
MaxBatch == 2      \* longest image list handed to process_multiple_images
MaxPages == 2      \* most pages of one PDF
MaxPdfs == 2       \* most PDF files in the input directory
MaxJsonLen == 3    \* longest analysis text given to parse_analysis_result
MaxChunks == 3     \* most chunks of one streamed reply

\* ------------------------------------------------------- sequence helpers
None == "<None>"

Falsy(x) == x = None \/ x = ""

StartsWith(s, p) == Len(s) >= Len(p) /\ SubSeq(s, 1, Len(p)) = p

StartsWithAny(s, ps) == \E p \in ps : StartsWith(s, p)

RECURSIVE Concat(_)
Concat(ss) == IF ss = <<>> THEN <<>> ELSE Head(ss) \o Concat(Tail(ss))

RECURSIVE Join(_, _)
Join(ss, sep) ==
    IF ss = <<>> THEN <<>>
    ELSE IF Len(ss) = 1 THEN Head(ss)
    ELSE Head(ss) \o sep \o Join(Tail(ss), sep)

SeqsUpTo(S, n) == UNION {[1..k -> S] : k \in 0..n}

Range(f) == {f[i] : i \in DOMAIN f}

\* ===================================================== models/config.py
Variants == {"chat2table", "legacy"}

NoConfig == [variant |-> "none"]
NoProcessor == [variant |-> "none"]

KeyVals == {None, "", "sk-key"}

DefaultBaseUrl == <<"https://", "dashscope.aliyuncs.com/compatible-mode/v1">>
DefaultRecognitionModel == "qwen-vl-max"
DefaultAnalysisModel == "qwen-max"
DefaultTemperature == 1        \* 0.1: temperatures are counted in tenths
DefaultMaxTokens == 2000

DefaultArgs ==
    [api_key |-> None, base_url |-> DefaultBaseUrl,
     recognition_model |-> DefaultRecognitionModel,
     analysis_model |-> DefaultAnalysisModel,
     temperature |-> DefaultTemperature, max_tokens |-> DefaultMaxTokens]

\* Constructor arguments tried: the defaults with the credential and at most
\* one other argument replaced.
ArgDeviations ==
    {DefaultArgs}
    \cup {[DefaultArgs EXCEPT !.base_url = u] :
            u \in {<<"http://", "localhost">>, <<"ftp://", "host">>}}
    \cup {[DefaultArgs EXCEPT !.recognition_model = ""],
          [DefaultArgs EXCEPT !.analysis_model = ""]}
    \cup {[DefaultArgs EXCEPT !.temperature = t] : t \in {-1, 0, 10, 11}}
    \cup {[DefaultArgs EXCEPT !.max_tokens = m] : m \in {-1, 0, 1}}

ConfigArgs == {[a EXCEPT !.api_key = k] : a \in ArgDeviations, k \in KeyVals}

MsgNoApiKey == <<"API key not set: pass api_key or set DASHSCOPE_API_KEY">>

\* `api_key or os.getenv("DASHSCOPE_API_KEY")`
KeyOrEnv(api_key, e) == IF ~Falsy(api_key) THEN api_key ELSE e

\* chat2table ModelConfig._validate_*: the first failing check, or "ok".
Validate(a, e) ==
    IF Falsy(a.api_key) /\ Falsy(e) THEN "api_key"
    ELSE IF ~StartsWithAny(a.base_url, {<<"http://">>, <<"https://">>}) THEN "base_url"
    ELSE IF Falsy(a.recognition_model) \/ Falsy(a.analysis_model) THEN "models"
    ELSE IF ~(0 <= a.temperature /\ a.temperature <= 10) THEN "temperature"
    ELSE IF a.max_tokens <= 0 THEN "max_tokens"
    ELSE "ok"

ConfigObject(variant, a, e) ==
    [variant |-> variant,
     api_key |-> KeyOrEnv(a.api_key, e),
     base_url |-> a.base_url,
     recognition_model |-> a.recognition_model,
     analysis_model |-> a.analysis_model,
     temperature |-> a.temperature,
     max_tokens |-> a.max_tokens]

\* chat2table ModelConfig.__init__: validate everything, then assign.
Chat2TableConfig(a, e) ==
    LET v == Validate(a, e) IN
    IF v = "ok"
    THEN [ok |-> TRUE, obj |-> ConfigObject("chat2table", a, e),
          exc |-> None, msg |-> <<>>]
    ELSE [ok |-> FALSE, obj |-> NoConfig, exc |-> "ConfigError",
          msg |-> IF v = "api_key" THEN MsgNoApiKey ELSE <<"invalid ", v>>]

\* legacy ModelConfig.__init__: only the credential is checked.
LegacyConfigNoCheck(a, e) ==
    [ok |-> TRUE, obj |-> ConfigObject("legacy", a, e), exc |-> None, msg |-> <<>>]

LegacyConfig(a, e) ==
    IF Falsy(KeyOrEnv(a.api_key, e))
    THEN [ok |-> FALSE, obj |-> NoConfig, exc |-> "ValueError", msg |-> MsgNoApiKey]
    ELSE [ok |-> TRUE, obj |-> ConfigObject("legacy", a, e),
          exc |-> None, msg |-> <<>>]

ModelConfigInit(variant, a, e) ==
    IF variant = "chat2table" THEN Chat2TableConfig(a, e) ELSE LegacyConfig(a, e)

\* get_recognition_model / get_analysis_model: a ChatOpenAI client object.
\* Building the client sends nothing.
ChatOpenAI(cfg, model_name) ==
    [api_key |-> cfg.api_key, base_url |-> cfg.base_url, model_name |-> model_name,
     temperature |-> cfg.temperature, max_tokens |-> cfg.max_tokens]

GetRecognitionModel(cfg) == ChatOpenAI(cfg, cfg.recognition_model)

GetAnalysisModel(cfg) == ChatOpenAI(cfg, cfg.analysis_model)

\* ImageProcessingChain.__init__
NewProcessor(cfg, debug) ==
    [variant |-> cfg.variant, config |-> cfg, debug |-> debug,
     recognition_model |-> GetRecognitionModel(cfg),
     analysis_model |-> GetAnalysisModel(cfg),
     output_parser |-> "StrOutputParser"]

\* ------------------------------------------------------ utils/logger.py
\* logging.getLogger(None) is the root logger; "chat2table" is the name
\* both logger modules use.
LoggerNames == {None, "chat2table"}

\* The logging module as imported: root at WARNING, every other logger
\* at NOTSET, nobody has a handler.
NoLoggers ==
    [n \in LoggerNames |->
        [level |-> IF n = None THEN "WARNING" ELSE "NOTSET", handlers |-> <<>>]]

Ev(type, ok, req) == [type |-> type, ok |-> ok, req |-> req]

Idle == [op |-> "idle"]

\* ============================================ chains/image_processing.py
\* Image inputs: [kind, val].  val is the text of a str, the content of a
\* bytes / BytesIO object, the mode then the pixels of a PIL image; "other" is a
\* value of any other type (None, an int, a list).
Str(s) == [kind |-> "str", val |-> s]
Bytes(b) == [kind |-> "bytes", val |-> b]
BytesIO(b) == [kind |-> "BytesIO", val |-> b]
PILImage(px, mode) == [kind |-> "PIL", val |-> <<mode>> \o px]
Other == [kind |-> "other", val |-> <<>>]

UrlPrefixes == {<<"http://">>, <<"https://">>, <<"file://">>}

\* requests.get(url).content of a reachable URL.
UrlContent(url) == <<"content-of">> \o url

\* PIL.Image.save(buf, format=...): JPEG cannot hold an alpha channel.
CanSaveAs(img, format) == ~(format = "JPEG" /\ img.val[1] = "RGBA")

SaveAs(img, format) == <<format>> \o img.val

\* base64.b64encode(b).decode('utf-8')
B64Encode(b) == <<"b64(">> \o b \o <<")">>

DataUrl(b64) == <<"data:image/jpeg;base64,">> \o b64

IMAGE_RECOGNITION_TEMPLATE == <<"IMAGE_RECOGNITION_TEMPLATE">>
RecognitionSystemPrompt == <<"system: image analysis assistant">>
AnalysisSystemPrompt == <<"system: data analysis assistant">>

\* ANALYSIS_TEMPLATE.format(recognition_result=r)
FormatAnalysisTemplate(r) ==
    <<"ANALYSIS_TEMPLATE[...recognition result follows:">> \o r \o <<"]">>

ImageBlock(b64) == [type |-> "image_url", body |-> DataUrl(b64)]
TextBlock(t) == [type |-> "text", body |-> t]

RecognitionMessagesTextFirst(image_bytes_list) ==
    [system |-> RecognitionSystemPrompt,
     user |-> <<TextBlock(IMAGE_RECOGNITION_TEMPLATE)>>
              \o [i \in 1..Len(image_bytes_list) |->
                     ImageBlock(B64Encode(image_bytes_list[i]))]]

\* _create_recognition_chain: encode every image, then one system message
\* and one user message: the image blocks in order, then the instruction.
RecognitionMessages(image_bytes_list) ==
    [system |-> RecognitionSystemPrompt,
     user |-> [i \in 1..Len(image_bytes_list) |->
                  ImageBlock(B64Encode(image_bytes_list[i]))]
              \o <<TextBlock(IMAGE_RECOGNITION_TEMPLATE)>>]

\* _create_analysis_chain
AnalysisMessagesDropsText(chain_variant, recognition_result) ==
    [system |-> IF chain_variant = "chat2table" THEN AnalysisSystemPrompt ELSE <<>>,
     user |-> FormatAnalysisTemplate(<<>>)]

AnalysisMessages(chain_variant, recognition_result) ==
    [system |-> IF chain_variant = "chat2table" THEN AnalysisSystemPrompt ELSE <<>>,
     user |-> FormatAnalysisTemplate(recognition_result)]

\* The hosted models: a deterministic provider answers a request with a
\* text that is a function of the request.
RecognitionReply(msgs) ==
    <<"REC<">> \o Concat([i \in 1..Len(msgs.user) |-> msgs.user[i].body]) \o <<">">>

AnalysisReply(msgs) == <<"ANA<">> \o msgs.user \o <<">">>

\* A failure plan: which calls of one invocation fail.  down: downloads
\* fail; rec / ana: the recognition / analysis call made for the image at
\* these positions fails (position 0: the call made for the whole batch).
Plans ==
    [down : BOOLEAN, rec : SUBSET (0..MaxBatch), ana : SUBSET (0..MaxBatch)]

Good(bytes, events) == [ok |-> TRUE, bytes |-> bytes, err |-> <<>>, events |-> events]
Bad(err, events) == [ok |-> FALSE, bytes |-> <<>>, err |-> err, events |-> events]

\* _download_image: requests.get + raise_for_status, re-raised on failure.
DownloadImage(url, plan) ==
    IF plan.down
    THEN Bad(<<"download failed: ">> \o url,
             <<Ev("download", FALSE, url),
               Ev("log_error", TRUE, <<"download failed: ">> \o url)>>)
    ELSE Good(UrlContent(url), <<Ev("download", TRUE, url)>>)

\* chat2table _convert_to_bytes
ConvertToBytesNoTypeCheck(image_data, plan) ==
    Good(image_data.val, <<>>)

ConvertToBytesAnyString(image_data, plan) ==
    IF image_data.kind = "str" THEN DownloadImage(image_data.val, plan)
    ELSE Good(image_data.val, <<>>)

ConvertToBytes(image_data, plan) ==
    IF image_data.kind = "str" THEN
        IF StartsWithAny(image_data.val, UrlPrefixes)
        THEN DownloadImage(image_data.val, plan)
        ELSE Bad(<<"unsupported URL format: ">> \o image_data.val, <<>>)
    ELSE IF image_data.kind = "BytesIO" THEN Good(image_data.val, <<>>)
    ELSE IF image_data.kind = "bytes" THEN Good(image_data.val, <<>>)
    ELSE IF image_data.kind = "PIL" THEN
        IF CanSaveAs(image_data, "JPEG")
        THEN Good(SaveAs(image_data, "JPEG"), <<>>)
        ELSE Bad(<<"cannot write mode RGBA as JPEG">>, <<>>)
    ELSE Bad(<<"unsupported image data type: ", image_data.kind>>, <<>>)

\* legacy process_image, lines 114-128: the same dispatch without PIL.
LegacyToBytes(image_data, plan) ==
    IF image_data.kind = "str" THEN
        IF StartsWithAny(image_data.val, UrlPrefixes)
        THEN DownloadImage(image_data.val, plan)
        ELSE Bad(<<"unsupported URL format: ">> \o image_data.val, <<>>)
    ELSE IF image_data.kind = "BytesIO" THEN Good(image_data.val, <<>>)
    ELSE IF image_data.kind = "bytes" THEN Good(image_data.val, <<>>)
    ELSE Bad(<<"unsupported image data type: ", image_data.kind>>, <<>>)

Normalize(chain_variant, image_data, plan) ==
    IF chain_variant = "chat2table" THEN ConvertToBytes(image_data, plan)
    ELSE LegacyToBytes(image_data, plan)

\* recognition_chain.invoke(...): one request to the recognition model.
InvokeRecognitionRetries(image_bytes_list, plan, pos) ==
    LET msgs == RecognitionMessages(image_bytes_list) IN
    IF pos \in plan.rec
    THEN [ok |-> TRUE, text |-> RecognitionReply(msgs), err |-> <<>>,
          events |-> <<Ev("recognition", FALSE, msgs), Ev("recognition", TRUE, msgs)>>]
    ELSE [ok |-> TRUE, text |-> RecognitionReply(msgs), err |-> <<>>,
          events |-> <<Ev("recognition", TRUE, msgs)>>]

InvokeRecognition(image_bytes_list, plan, pos) ==
    LET msgs == RecognitionMessages(image_bytes_list) IN
    IF pos \in plan.rec
    THEN [ok |-> FALSE, text |-> <<>>, err |-> <<"recognition request failed">>,
          events |-> <<Ev("recognition", FALSE, msgs)>>]
    ELSE [ok |-> TRUE, text |-> RecognitionReply(msgs), err |-> <<>>,
          events |-> <<Ev("recognition", TRUE, msgs)>>]

\* analysis_chain.invoke(...): one request to the analysis model.
InvokeAnalysis(chain_variant, recognition_result, plan, pos) ==
    LET msgs == AnalysisMessages(chain_variant, recognition_result) IN
    IF pos \in plan.ana
    THEN [ok |-> FALSE, text |-> <<>>, err |-> <<"analysis request failed">>,
          events |-> <<Ev("analysis", FALSE, msgs)>>]
    ELSE [ok |-> TRUE, text |-> AnalysisReply(msgs), err |-> <<>>,
          events |-> <<Ev("analysis", TRUE, msgs)>>]

\* None where a text is expected (a text is a sequence of tokens).
NoneText == <<"<None>">>

FalsyText(t) == t = NoneText \/ t = <<>>

\* `image_data if isinstance(image_data, str) else None`
ImageUrlOf(image_data) ==
    IF image_data.kind = "str" THEN image_data.val ELSE NoneText

ErrorRecord(image_data, err) ==
    [status |-> "error", image_url |-> ImageUrlOf(image_data), error |-> err]

Out(result, events) == [result |-> result, events |-> events]

LogError(msg) == Ev("log_error", TRUE, msg)

\* ImageProcessingChain.process_image (both variants; `stream` is accepted
\* and not used).  pos names the call in the failure plan.
ProcessImageNoShortCircuit(chain_variant, image_data, stream, plan, pos) ==
    LET conv == Normalize(chain_variant, image_data, plan)
        rec == InvokeRecognition(<<conv.bytes>>, plan, pos)
        ana == InvokeAnalysis(chain_variant, rec.text, plan, pos)
    IN  IF ~conv.ok
        THEN Out(ErrorRecord(image_data, conv.err),
                 conv.events \o <<LogError(conv.err)>>)
        ELSE Out([status |-> IF rec.ok /\ ana.ok THEN "success" ELSE "error",
                  image_url |-> ImageUrlOf(image_data),
                  recognition_result |-> rec.text,
                  analysis_result |-> ana.text],
                 conv.events \o rec.events \o ana.events)

ProcessImageAt(chain_variant, image_data, stream, plan, pos) ==
    LET conv == Normalize(chain_variant, image_data, plan)
        rec == InvokeRecognition(<<conv.bytes>>, plan, pos)
        ana == InvokeAnalysis(chain_variant, rec.text, plan, pos)
    IN  IF ~conv.ok
        THEN Out(ErrorRecord(image_data, conv.err),
                 conv.events \o <<LogError(conv.err)>>)
        ELSE IF ~rec.ok
        THEN Out(ErrorRecord(image_data, rec.err),
                 conv.events \o rec.events \o <<LogError(rec.err)>>)
        ELSE IF ~ana.ok
        THEN Out(ErrorRecord(image_data, ana.err),
                 conv.events \o rec.events \o ana.events \o <<LogError(ana.err)>>)
        ELSE Out([status |-> "success",
                  image_url |-> ImageUrlOf(image_data),
                  recognition_result |-> rec.text,
                  analysis_result |-> ana.text],
                 conv.events \o rec.events \o ana.events)

ProcessImageStreamDropsAnalysis(chain_variant, image_data, stream, plan) ==
    LET out == ProcessImageAt(chain_variant, image_data, stream, plan, 1) IN
    IF stream /\ out.result.status = "success"
    THEN Out([out.result EXCEPT !.analysis_result = <<>>], out.events)
    ELSE out

ProcessImage(chain_variant, image_data, stream, plan) ==
    ProcessImageAt(chain_variant, image_data, stream, plan, 1)

MsgNoImage == <<"no image was processed successfully">>

BatchErrorSilent(err, events) == Out([status |-> "error"], events)

BatchError(err, events) ==
    Out([status |-> "error", error |-> err], events \o <<LogError(err)>>)

\* chat2table process_multiple_images, lines 226-234: convert every image
\* in order; the first failure raises out of the loop.
ConvertAll(image_data_list, plan) ==
    LET n == Len(image_data_list)
        convs == [i \in 1..n |-> ConvertToBytes(image_data_list[i], plan)]
        bad == {i \in 1..n : ~convs[i].ok}
        stop == IF bad = {} THEN n ELSE CHOOSE i \in bad : \A j \in bad : i <= j
    IN  [ok |-> bad = {},
         list |-> [i \in 1..n |-> convs[i].bytes],
         err |-> IF bad = {} THEN <<>> ELSE convs[stop].err,
         events |-> Concat([i \in 1..stop |-> convs[i].events])]

Chat2TableProcessMultipleNoEmptyCheck(image_data_list, stream, plan) ==
    LET all == ConvertAll(image_data_list, plan)
        rec == InvokeRecognition(all.list, plan, 0)
        ana == InvokeAnalysis("chat2table", rec.text, plan, 0)
    IN  IF ~all.ok THEN BatchError(all.err, all.events)
        ELSE IF ~rec.ok THEN BatchError(rec.err, all.events \o rec.events)
        ELSE IF ~ana.ok THEN BatchError(ana.err, all.events \o rec.events \o ana.events)
        ELSE Out([status |-> "success",
                  image_count |-> Len(image_data_list),
                  recognition_result |-> rec.text,
                  analysis_result |-> ana.text],
                 all.events \o rec.events \o ana.events)

\* chat2table process_multiple_images: one recognition request holding
\* every image, then one analysis request.
Chat2TableProcessMultiple(image_data_list, stream, plan) ==
    LET all == ConvertAll(image_data_list, plan)
        rec == InvokeRecognition(all.list, plan, 0)
        ana == InvokeAnalysis("chat2table", rec.text, plan, 0)
    IN  IF ~all.ok THEN BatchError(all.err, all.events)
        ELSE IF all.list = <<>> THEN BatchError(MsgNoImage, all.events)
        ELSE IF ~rec.ok THEN BatchError(rec.err, all.events \o rec.events)
        ELSE IF ~ana.ok THEN BatchError(ana.err, all.events \o rec.events \o ana.events)
        ELSE Out([status |-> "success",
                  image_count |-> Len(image_data_list),
                  recognition_result |-> rec.text,
                  analysis_result |-> ana.text],
                 all.events \o rec.events \o ana.events)

\* legacy process_multiple_images, lines 184-195: process_image on every
\* image in turn; an image whose record is an error is logged and skipped.
LegacyEach(image_data_list, stream, plan) ==
    LET n == Len(image_data_list)
        rs == [i \in 1..n |->
                  ProcessImageAt("legacy", image_data_list[i], stream, plan, i)]
        kept == SelectSeq([i \in 1..n |-> i],
                          LAMBDA i : rs[i].result.status # "error")
    IN  [texts |-> [j \in 1..Len(kept) |-> rs[kept[j]].result.recognition_result],
         events |-> Concat([i \in 1..n |->
                       IF rs[i].result.status = "error"
                       THEN rs[i].events \o <<LogError(rs[i].result.error)>>
                       ELSE rs[i].events])]

\* "\n\n=== image {} ===\n{}".format(", ".join(1..n), "\n\n".join(texts))
CombinedRecognition(texts) ==
    <<"\n\n=== image ">>
    \o Join([i \in 1..Len(texts) |-> <<ToString(i)>>], <<", ">>)
    \o <<" ===\n">>
    \o Join(texts, <<"\n\n">>)

\* legacy process_multiple_images: the recognition texts of the images that
\* succeeded are merged and analysed once more.
LegacyProcessMultiple(image_data_list, stream, plan) ==
    LET each == LegacyEach(image_data_list, stream, plan)
        combined == CombinedRecognition(each.texts)
        ana == InvokeAnalysis("legacy", combined, plan, 0)
    IN  IF each.texts = <<>> THEN BatchError(MsgNoImage, each.events)
        ELSE IF ~ana.ok THEN BatchError(ana.err, each.events \o ana.events)
        ELSE Out([status |-> "success",
                  image_count |-> Len(image_data_list),
                  recognition_result |-> combined,
                  analysis_result |-> ana.text],
                 each.events \o ana.events)

ProcessMultipleImages(chain_variant, image_data_list, stream, plan) ==
    IF chain_variant = "chat2table"
    THEN Chat2TableProcessMultiple(image_data_list, stream, plan)
    ELSE LegacyProcessMultiple(image_data_list, stream, plan)

\* ============================================================ src/main.py
NoPage == -1    \* page_number = None

\* base64.b64decode(text): characters outside the alphabet are dropped,
\* and what is left must be whole 4-character groups.  "QUJD" and "REVG"
\* are whole groups, "." is outside the alphabet, any other token leaves an
\* incomplete group (binascii.Error).
B64Groups == {"QUJD", "REVG"}
B64Dropped == {"."}

B64GroupBytes(tok) == IF tok = "QUJD" THEN <<"A", "B", "C">> ELSE <<"D", "E", "F">>

B64Decodes(text) == \A i \in 1..Len(text) : text[i] \in B64Groups \cup B64Dropped

B64Decode(text) ==
    Concat([i \in 1..Len(text) |->
               IF text[i] \in B64Groups THEN B64GroupBytes(text[i]) ELSE <<>>])

FailedText == <<"processing failed">>
WrapperErrorMarkedFailed(msg, events) ==
    LET error_msg == <<"image processing failed: ">> \o msg IN
    Out([status |-> "failed", error |-> error_msg,
         analysis_result |-> FailedText, recognition_result |-> FailedText],
        events \o <<LogError(error_msg)>>)

\* The except branch of process_local_image / process_image.
WrapperError(msg, events) ==
    LET error_msg == <<"image processing failed: ">> \o msg IN
    Out([status |-> "error", error |-> error_msg,
         analysis_result |-> FailedText, recognition_result |-> FailedText],
        events \o <<LogError(error_msg)>>)

\* open(path, 'rb').read() of a readable file.
FileContent(path) == <<"bytes-of-file">> \o path

ProcessLocalImageNoPageFields(proc, image_data, page_number, stream, plan, readable) ==
    LET inner ==
            IF image_data.kind = "str"
            THEN ProcessImage(proc.variant, Bytes(FileContent(image_data.val)),
                              stream, plan)
            ELSE ProcessImage(proc.variant, BytesIO(SaveAs(image_data, "PNG")),
                              stream, plan)
        r == inner.result
    IN  IF image_data.kind = "str" /\ ~readable
        THEN WrapperError(<<"No such file or directory: ">> \o image_data.val, <<>>)
        ELSE IF image_data.kind \notin {"str", "PIL"}
        THEN WrapperError(<<"object has no attribute 'save'">>, <<>>)
        ELSE IF r.status = "error"
        THEN WrapperError(r.error, inner.events)
        ELSE inner

\* process_local_image(processor, image_data, page_number, stream).
\* readable: the file named by a str image_data exists and can be read.
ProcessLocalImage(proc, image_data, page_number, stream, plan, readable) ==
    LET inner ==
            IF image_data.kind = "str"
            THEN ProcessImage(proc.variant, Bytes(FileContent(image_data.val)),
                              stream, plan)
            ELSE ProcessImage(proc.variant, BytesIO(SaveAs(image_data, "PNG")),
                              stream, plan)
        r == inner.result
    IN  IF image_data.kind = "str" /\ ~readable
        THEN WrapperError(<<"No such file or directory: ">> \o image_data.val, <<>>)
        ELSE IF image_data.kind \notin {"str", "PIL"}
        THEN WrapperError(<<"object has no attribute 'save'">>, <<>>)
        ELSE IF r.status = "error"
        THEN WrapperError(r.error, inner.events)
        ELSE IF page_number # NoPage
        THEN Out([r EXCEPT !.image_url =
                      IF FalsyText(@)
                      THEN <<"pdf_page_", ToString(page_number), ".png">>
                      ELSE @]
                 @@ [original_pdf |-> TRUE, page_number |-> page_number],
                 inner.events)
        ELSE inner

\* process_image(processor, image_data, stream) of main.py.
MainProcessImageNoDecode(proc, image_data, stream, plan) ==
    LET inner == ProcessImage(proc.variant, image_data, stream, plan)
        r == inner.result
    IN  IF r.status = "error" THEN WrapperError(r.error, inner.events)
        ELSE inner

MainProcessImage(proc, image_data, stream, plan) ==
    LET inner ==
            IF image_data.kind = "str"
               /\ ~StartsWithAny(image_data.val, {<<"http://">>, <<"https://">>})
            THEN ProcessImage(proc.variant, Bytes(B64Decode(image_data.val)),
                              stream, plan)
            ELSE ProcessImage(proc.variant, image_data, stream, plan)
        r == inner.result
    IN  IF image_data.kind = "str"
           /\ ~StartsWithAny(image_data.val, {<<"http://">>, <<"https://">>})
           /\ ~B64Decodes(image_data.val)
        THEN WrapperError(<<"invalid image data format: ">>
                          \o <<"Incorrect padding">>, <<>>)
        ELSE IF r.status = "error"
        THEN WrapperError(r.error, inner.events)
        ELSE inner

\* ====================================================== inputs explored
HttpUrl == <<"http://", "host/a", ".", "jpg">>

Images ==
    {Str(HttpUrl), Str(<<"https://", "host/b">>), Str(<<"file://", "c">>),
     Str(<<"input/a", ".", "jpg">>), Str(<<"QUJD">>), Str(<<"QUJD", ".", "REVG">>),
     Str(<<>>),
     Bytes(<<>>), Bytes(<<"A">>), BytesIO(<<"A", "B">>),
     PILImage(<<"px">>, "RGB"), PILImage(<<"px">>, "RGBA"), Other}

BatchItems ==
    {Str(HttpUrl), Str(<<"input/a", ".", "jpg">>), Bytes(<<"A">>),
     PILImage(<<"px">>, "RGB"), Other}

ImageLists == SeqsUpTo(BatchItems, MaxBatch)

SinglePlans == {p \in Plans : p.rec \subseteq {1} /\ p.ana \subseteq {1}}

DefaultConfig(variant) ==
    ModelConfigInit(variant, [DefaultArgs EXCEPT !.api_key = "sk-key"], None).obj

\* ===================================================== the chain at work
Invocation(op, input, stream, page, out) ==
    [op |-> op, variant |-> processor.variant, input |-> input, stream |-> stream,
     page |-> page, result |-> out.result, events |-> out.events, raised |-> None]

ChainAfterRequestSwapsModel(p) ==
    [p EXCEPT !.analysis_model = p.recognition_model]

\* The attributes of self when process_image / process_multiple_images
\* returns: neither method, nor a helper it calls, assigns one.
ChainAfterRequest(p) == p

InitChain ==
    /\ loggers = NoLoggers
    /\ env = "sk-key"
    /\ dotenv = None
    /\ \E v \in Variants :
          /\ config = DefaultConfig(v)
          /\ processor = NewProcessor(DefaultConfig(v), TRUE)
    /\ last = Idle

\* processor.process_image(image_data, stream)
CallProcessImage ==
    /\ last = Idle
    /\ \E image_data \in Images, stream \in BOOLEAN, plan \in SinglePlans :
          last' = Invocation("process_image", image_data, stream, NoPage,
                      ProcessImage(processor.variant, image_data, stream, plan))
    /\ processor' = ChainAfterRequest(processor)
    /\ UNCHANGED <<env, dotenv, config, loggers>>

\* processor.process_multiple_images(image_data_list, stream)
CallProcessMultipleImages ==
    /\ last = Idle
    /\ \E image_data_list \in ImageLists, stream \in BOOLEAN, plan \in Plans :
          last' = Invocation("process_multiple_images", image_data_list, stream, NoPage,
                      ProcessMultipleImages(processor.variant, image_data_list,
                                            stream, plan))
    /\ processor' = ChainAfterRequest(processor)
    /\ UNCHANGED <<env, dotenv, config, loggers>>

\* main.py process_image(processor, image_data, stream)
CallMainProcessImage ==
    /\ last = Idle
    /\ \E image_data \in Images, stream \in BOOLEAN, plan \in SinglePlans :
          last' = Invocation("main.process_image", image_data, stream, NoPage,
                      MainProcessImage(processor, image_data, stream, plan))
    /\ processor' = ChainAfterRequest(processor)
    /\ UNCHANGED <<env, dotenv, config, loggers>>

\* main.py process_local_image(processor, image_data, page_number, stream)
CallProcessLocalImage ==
    /\ last = Idle
    /\ \E image_data \in Images, stream \in BOOLEAN, plan \in SinglePlans,
          page \in {NoPage} \cup (1..MaxPages), readable \in BOOLEAN :
          last' = Invocation("main.process_local_image", image_data, stream, page,
                      ProcessLocalImage(processor, image_data, page, stream,
                                        plan, readable))
    /\ processor' = ChainAfterRequest(processor)
    /\ UNCHANGED <<env, dotenv, config, loggers>>

\* The caller takes the record; the next request can start.
Return ==
    /\ last # Idle
    /\ last' = Idle
    /\ UNCHANGED <<env, dotenv, config, processor, loggers>>

NextChain ==
    \/ CallProcessImage
    \/ CallProcessMultipleImages
    \/ CallMainProcessImage
    \/ CallProcessLocalImage
    \/ Return

SpecChain == InitChain /\ [][NextChain]_vars

\* ======================================================== configuration
MsgNoApiKeyFound == <<"API key not found: set DASHSCOPE_API_KEY or create .env">>

\* load_dotenv(): a variable of the .env file is set in the environment
\* unless the environment already defines it (override=False).
LoadDotenvOverrides(e, d) == IF Falsy(d) THEN e ELSE d

LoadDotenv(e, d) == IF e = None THEN d ELSE e

\* get_api_key() of main.py and run.py; env is the environment it leaves.
GetApiKey(e, d) ==
    LET e2 == IF Falsy(e) /\ d # None THEN LoadDotenv(e, d) ELSE e IN
    IF Falsy(e2)
    THEN [ok |-> FALSE, key |-> None, env |-> e2, exc |-> "ValueError",
          msg |-> MsgNoApiKeyFound, consulted |-> Falsy(e) /\ d # None]
    ELSE [ok |-> TRUE, key |-> e2, env |-> e2, exc |-> None, msg |-> <<>>,
          consulted |-> Falsy(e) /\ d # None]

ClientBuilt(client) == Ev("client_built", TRUE, client)

InitConfig ==
    /\ loggers = NoLoggers
    /\ env \in KeyVals
    /\ dotenv \in KeyVals
    /\ config = NoConfig
    /\ processor = NoProcessor
    /\ last = Idle

\* ModelConfig(api_key=..., base_url=..., ...); every entry point builds its
\* configuration before its chain.
ConstructModelConfig ==
    /\ last = Idle
    /\ processor = NoProcessor
    /\ \E v \in Variants, a \in ConfigArgs :
          LET r == ModelConfigInit(v, a, env) IN
          /\ last' = [op |-> "ModelConfig", variant |-> v, input |-> a, env |-> env,
                      result |-> r.obj, events |-> <<>>, raised |-> r.exc,
                      msg |-> r.msg]
          /\ config' = IF r.ok THEN r.obj ELSE config
    /\ UNCHANGED <<env, dotenv, processor, loggers>>

\* ImageProcessingChain(config, debug): builds the two model clients.
ConstructChain ==
    /\ last = Idle
    /\ config # NoConfig
    /\ \E debug \in BOOLEAN :
          LET p == NewProcessor(config, debug) IN
          /\ processor' = p
          /\ last' = [op |-> "ImageProcessingChain", variant |-> config.variant,
                      input |-> config, env |-> env, result |-> p,
                      events |-> <<ClientBuilt(p.recognition_model),
                                   ClientBuilt(p.analysis_model)>>,
                      raised |-> None, msg |-> <<>>]
    /\ UNCHANGED <<env, dotenv, config, loggers>>

\* get_api_key()
CallGetApiKey ==
    /\ last = Idle
    /\ LET r == GetApiKey(env, dotenv) IN
          /\ env' = r.env
          /\ last' = [op |-> "get_api_key", variant |-> "legacy", input |-> dotenv,
                      env |-> env, result |-> r.key,
                      events |-> IF r.consulted
                                 THEN <<Ev("load_dotenv", TRUE, dotenv)>> ELSE <<>>,
                      raised |-> r.exc, msg |-> r.msg]
    /\ UNCHANGED <<dotenv, config, processor, loggers>>

NextConfig ==
    \/ ConstructModelConfig
    \/ ConstructChain
    \/ CallGetApiKey
    \/ Return

SpecConfig == InitConfig /\ [][NextConfig]_vars

\* ======================================= main.py: parse_analysis_result
\* An analysis text is a sequence of JSON tokens; "x" is any text that is
\* no JSON token.  A JSON value is [type, items].
JsonTokens == {"[", "]", "{", "}", ",", "1", "x"}

JsonTexts == SeqsUpTo(JsonTokens, MaxJsonLen)

JsonNumber == [type |-> "number", items |-> <<>>]
JsonDict(members) == [type |-> "dict", items |-> members]
JsonList(elements) == [type |-> "list", items |-> elements]

ParseFail == [ok |-> FALSE, val |-> JsonNumber, rest |-> <<>>]
Parsed(val, rest) == [ok |-> TRUE, val |-> val, rest |-> rest]

\* The decoder of json.loads: one value at the head of toks.
RECURSIVE ParseValue(_)
RECURSIVE ParseElements(_, _)
ParseValue(toks) ==
    IF toks = <<>> THEN ParseFail
    ELSE LET h == Head(toks)
             t == Tail(toks)
         IN  IF h = "1" THEN Parsed(JsonNumber, t)
             ELSE IF h = "{" THEN
                 IF t # <<>> /\ Head(t) = "}" THEN Parsed(JsonDict(<<>>), Tail(t))
                 ELSE ParseFail
             ELSE IF h = "[" THEN
                 IF t # <<>> /\ Head(t) = "]" THEN Parsed(JsonList(<<>>), Tail(t))
                 ELSE ParseElements(t, <<>>)
             ELSE ParseFail

ParseElements(toks, acc) ==
    LET v == ParseValue(toks) IN
    IF ~v.ok \/ v.rest = <<>> THEN ParseFail
    ELSE IF Head(v.rest) = "]" THEN Parsed(JsonList(Append(acc, v.val)), Tail(v.rest))
    ELSE IF Head(v.rest) = "," THEN ParseElements(Tail(v.rest), Append(acc, v.val))
    ELSE ParseFail

\* json.loads(text): the value, or JSONDecodeError (also on trailing data).
JsonLoads(text) ==
    LET r == ParseValue(text) IN
    IF r.ok /\ r.rest = <<>> THEN [ok |-> TRUE, val |-> r.val]
    ELSE [ok |-> FALSE, val |-> JsonNumber]

RawResult(text) == JsonDict(<<[key |-> "raw_result", val |-> text]>>)

ParseAnalysisResultDropsText(analysis_result) ==
    LET r == JsonLoads(analysis_result) IN
    IF r.ok THEN r.val ELSE RawResult(<<>>)

\* parse_analysis_result(analysis_result)
ParseAnalysisResult(analysis_result) ==
    LET r == JsonLoads(analysis_result) IN
    IF r.ok THEN r.val ELSE RawResult(analysis_result)

\* ============================ convert_pdf_to_images and get_input_files
\* A file of the input directory: [name, ext, pages, ok]; pages and ok say
\* what pdf2image makes of a PDF (ok = FALSE: convert_from_path raises);
\* ok of an image file: it can be read.
ImageFile(name, ext, ok) == [name |-> name, ext |-> ext, pages |-> 0, ok |-> ok]
PdfFile(name, ext, pages, ok) == [name |-> name, ext |-> ext, pages |-> pages, ok |-> ok]

FilePath(f) == <<"input/", f.name, ".", f.ext>>

\* convert_from_path(pdf_path)[i-1]: the rasterised page i.
PageImage(f, i) == PILImage(<<f.name, "page", ToString(i)>>, "RGB")

Entry(data, page) == [data |-> data, page |-> page]

ConvertPdfFromZero(script, f) ==
    [i \in 1..f.pages |->
        Entry(IF script = "main" THEN PageImage(f, i)
              ELSE Bytes(SaveAs(PageImage(f, i), "PNG")),
              i - 1)]

\* convert_pdf_to_images(pdf_path) of main.py (PIL images) and of run.py
\* (PNG bytes): [(img, i+1) for i, img in enumerate(images)].
ConvertPdfToImages(script, f) ==
    [i \in 1..f.pages |->
        Entry(IF script = "main" THEN PageImage(f, i)
              ELSE Bytes(SaveAs(PageImage(f, i), "PNG")),
              i)]

\* glob.glob(os.path.join(input_dir, "*." + ext)): the files of the
\* listing with that extension (a case-sensitive file system).
Glob(dir, ext) == SelectSeq(dir, LAMBDA f : f.ext = ext)

ImageExts == <<"jpg", "JPG", "jpeg", "JPEG", "png", "PNG", "gif", "GIF", "bmp", "BMP">>

\* `x[1] if x[1] is not None else 0`
SortKey(e) == IF e.page # NoPage THEN e.page ELSE 0

\* sorted(result_files, key=...): stable, ascending.
RECURSIVE InsertByKey(_, _)
InsertByKey(sorted, e) ==
    IF sorted = <<>> THEN <<e>>
    ELSE IF SortKey(sorted[Len(sorted)]) <= SortKey(e) THEN Append(sorted, e)
    ELSE Append(InsertByKey(SubSeq(sorted, 1, Len(sorted) - 1), e), sorted[Len(sorted)])

RECURSIVE SortedByKey(_)
SortedByKey(entries) ==
    IF entries = <<>> THEN <<>>
    ELSE InsertByKey(SortedByKey(SubSeq(entries, 1, Len(entries) - 1)),
                     entries[Len(entries)])

\* run.py reads every image file and skips one it cannot read.
ImageEntries(script, dir) ==
    LET globbed == Concat([k \in 1..Len(ImageExts) |-> Glob(dir, ImageExts[k])])
        found == IF script = "main" THEN globbed
                 ELSE SelectSeq(globbed, LAMBDA f : f.ok)
    IN
    [i \in 1..Len(found) |->
        Entry(IF script = "main" THEN Str(FilePath(found[i]))
              ELSE Bytes(FileContent(FilePath(found[i]))),
              NoPage)]

PdfEntries(script, dir) ==
    LET found == Glob(dir, "pdf") \o Glob(dir, "PDF") IN
    Concat([i \in 1..Len(found) |->
               IF found[i].ok THEN ConvertPdfToImages(script, found[i]) ELSE <<>>])

\* get_input_files(): the image files, then the pages of every PDF that
\* converts (one that does not is logged and skipped), sorted by page.
GetInputFiles(script, dir) ==
    SortedByKey(ImageEntries(script, dir) \o PdfEntries(script, dir))

\* ================================================ files and parsing
ImageFiles ==
    {ImageFile("a", "jpg", TRUE), ImageFile("b", "jpg", FALSE),
     ImageFile("c", "PNG", TRUE), ImageFile("notes", "txt", TRUE)}

PdfNames == <<"doc1", "doc2", "doc3", "doc4">>

\* What a PDF can be: its extension, and whether it converts, to how many pages.
PdfKinds ==
    {[ext |-> x, pages |-> k, ok |-> TRUE] : x \in {"pdf", "PDF"}, k \in 0..MaxPages}
    \cup {[ext |-> "pdf", pages |-> 0, ok |-> FALSE]}

PdfListings ==
    {[i \in 1..Len(ks) |-> PdfFile(PdfNames[i], ks[i].ext, ks[i].pages, ks[i].ok)] :
        ks \in SeqsUpTo(PdfKinds, MaxPdfs)}

ImageListings ==
    {fs \in SeqsUpTo(ImageFiles, 2) : \A i, j \in 1..Len(fs) : i # j => fs[i] # fs[j]}

\* Directory listings: the order of the files is the order the file system
\* reports them in.
Dirs == {imgs \o pdfs : imgs \in ImageListings, pdfs \in PdfListings}

SmallDirs == {dir \in Dirs : Len(dir) <= 2}

Scripts == {"main", "run"}

PureCall(op, variant, input, result) ==
    [op |-> op, variant |-> variant, input |-> input, stream |-> FALSE,
     page |-> NoPage, result |-> result, events |-> <<>>, raised |-> None]

\* parse_analysis_result(analysis_result)
CallParseAnalysisResult ==
    /\ last = Idle
    /\ \E text \in JsonTexts :
          last' = PureCall("parse_analysis_result", "main", text,
                           ParseAnalysisResult(text))
    /\ UNCHANGED <<env, dotenv, config, processor, loggers>>

\* convert_pdf_to_images(pdf_path); a PDF that does not convert raises.
CallConvertPdfToImages ==
    /\ last = Idle
    /\ \E script \in Scripts, k \in PdfKinds :
          LET f == PdfFile(PdfNames[1], k.ext, k.pages, k.ok) IN
          last' = [PureCall("convert_pdf_to_images", script, f,
                            IF f.ok THEN ConvertPdfToImages(script, f) ELSE <<>>)
                   EXCEPT !.raised = IF f.ok THEN None ELSE "PDFPageCountError",
                          !.events = IF f.ok THEN <<>>
                                     ELSE <<LogError(<<"PDF conversion failed">>)>>]
    /\ UNCHANGED <<env, dotenv, config, processor, loggers>>

\* get_input_files()
CallGetInputFiles ==
    /\ last = Idle
    /\ \E script \in Scripts, dir \in Dirs :
          last' = PureCall("get_input_files", script, dir, GetInputFiles(script, dir))
    /\ UNCHANGED <<env, dotenv, config, processor, loggers>>

\* Not in batch mode: process_local_image on one entry of get_input_files.
CallProcessLocalImageOnEntry ==
    /\ last = Idle
    /\ \E dir \in SmallDirs, plan \in SinglePlans, stream \in BOOLEAN :
          LET files == GetInputFiles("main", dir) IN
          \E i \in 1..Len(files) :
             last' = Invocation("main.process_local_image", files[i].data, stream,
                         files[i].page,
                         ProcessLocalImage(processor, files[i].data, files[i].page,
                             stream, plan,
                             \E f \in Range(dir) :
                                 f.ok /\ Str(FilePath(f)) = files[i].data))
    /\ UNCHANGED <<env, dotenv, config, processor, loggers>>

NextFiles ==
    \/ CallParseAnalysisResult
    \/ CallConvertPdfToImages
    \/ CallGetInputFiles
    \/ CallProcessLocalImageOnEntry
    \/ Return

SpecFiles == InitChain /\ [][NextFiles]_vars

\* ====================================================== entry points
Whitespace == {" ", "\n"}

\* str.strip()
RECURSIVE Strip(_)
Strip(t) ==
    IF t = <<>> THEN t
    ELSE IF Head(t) \in Whitespace THEN Strip(Tail(t))
    ELSE IF t[Len(t)] \in Whitespace THEN Strip(SubSeq(t, 1, Len(t) - 1))
    ELSE t

\* Command lines of main.py: --url, --image (None when absent), --stream,
\* and what standard input holds.
CommandLines ==
    [url : {NoneText, <<>>, HttpUrl},
     image : {NoneText, <<"QUJD">>, <<"QUJD", "x">>},
     stream : BOOLEAN,
     stdin : {<<>>, <<"\n">>, HttpUrl \o <<"\n">>, <<"QUJD">>}]

\* The image data main() of main.py hands to process_image, lines 318-329.
InputOf(args) ==
    IF ~FalsyText(args.url) THEN args.url
    ELSE IF ~FalsyText(args.image) THEN args.image
    ELSE Strip(args.stdin)

MainRun(op, variant, input, e, outcome, events, raised) ==
    [op |-> op, variant |-> variant, input |-> input, env |-> e, stream |-> FALSE,
     page |-> NoPage, result |-> outcome, events |-> events, raised |-> raised]

MsgRunFailed(msg) == <<"program failed: ">> \o msg

MainPyPrintsErrors(args, e, d, plan) ==
    LET k == GetApiKey(e, d)
        cfg == LegacyConfig([DefaultArgs EXCEPT !.api_key = k.key], k.env).obj
        proc == NewProcessor(cfg, TRUE)
        built == <<ClientBuilt(proc.recognition_model), ClientBuilt(proc.analysis_model)>>
        out == MainProcessImage(proc, Str(InputOf(args)), args.stream, plan)
    IN  IF ~k.ok
        THEN MainRun("main.py", "legacy", args, e, "raised",
                     <<LogError(MsgRunFailed(k.msg))>>, "UnboundLocalError")
        ELSE MainRun("main.py", "legacy", args, e, "returned",
                     built \o out.events
                     \o <<Ev("print", TRUE,
                             ParseAnalysisResult(out.result.analysis_result))>>,
                     None)

\* main() of main.py.  Its handler logs the exception and then reads
\* config.debug: with get_api_key failed, config is not bound yet, and the
\* handler itself raises.
MainPy(args, e, d, plan) ==
    LET k == GetApiKey(e, d)
        cfg == LegacyConfig([DefaultArgs EXCEPT !.api_key = k.key], k.env).obj
        proc == NewProcessor(cfg, TRUE)
        built == <<ClientBuilt(proc.recognition_model), ClientBuilt(proc.analysis_model)>>
        out == MainProcessImage(proc, Str(InputOf(args)), args.stream, plan)
    IN  IF ~k.ok
        THEN MainRun("main.py", "legacy", args, e, "raised",
                     <<LogError(MsgRunFailed(k.msg))>>, "UnboundLocalError")
        ELSE IF "error" \in DOMAIN out.result
        THEN MainRun("main.py", "legacy", args, e, "returned",
                     built \o out.events \o <<LogError(out.result.error)>>, None)
        ELSE MainRun("main.py", "legacy", args, e, "returned",
                     built \o out.events
                     \o <<Ev("print", TRUE,
                             ParseAnalysisResult(out.result.analysis_result))>>,
                     None)

\* main() of run.py, lines 131-146: what follows process_multiple_images.
RunPyReport(variant, dir, e, built, out) ==
    IF "error" \in DOMAIN out.result
    THEN MainRun("run.py", variant, dir, e, "returned",
                 built \o out.events \o <<LogError(out.result.error)>>, None)
    ELSE MainRun("run.py", variant, dir, e, "returned",
                 built \o out.events \o <<Ev("save_result", TRUE, out.result)>>, None)

\* main() of run.py; input_files is what its get_input_files() call returns.
\* Every input file goes into one batch; an exception is logged and raised
\* again.
RunPy(variant, dir, input_files, e, d, plan) ==
    LET k == GetApiKey(e, d)
        cfg == ModelConfigInit(variant, [DefaultArgs EXCEPT !.api_key = k.key], k.env).obj
        proc == NewProcessor(cfg, TRUE)
        built == <<ClientBuilt(proc.recognition_model), ClientBuilt(proc.analysis_model)>>
        image_data_list == [i \in 1..Len(input_files) |-> input_files[i].data]
    IN  IF ~k.ok
        THEN MainRun("run.py", variant, dir, e, "raised",
                     <<LogError(MsgRunFailed(k.msg))>>, k.exc)
        ELSE IF input_files = <<>>
        THEN MainRun("run.py", variant, dir, e, "returned",
                     built \o <<Ev("log_warning", TRUE, <<"no file in input">>)>>, None)
        ELSE RunPyReport(variant, dir, e, built,
                         ProcessMultipleImages(variant, image_data_list, FALSE, plan))

\* python main.py [--url U] [--image B] [--stream]
RunMainPy ==
    /\ last = Idle
    /\ \E args \in CommandLines, plan \in SinglePlans :
          /\ last' = MainPy(args, env, dotenv, plan)
          /\ env' = GetApiKey(env, dotenv).env
    /\ UNCHANGED <<dotenv, config, processor, loggers>>

\* python run.py
RunRunPy ==
    /\ last = Idle
    /\ \E variant \in Variants, dir \in SmallDirs, plan \in Plans :
          \E input_files \in {GetInputFiles("run", dir)} :
          /\ last' = RunPy(variant, dir, input_files, env, dotenv, plan)
          /\ env' = GetApiKey(env, dotenv).env
    /\ UNCHANGED <<dotenv, config, processor, loggers>>

NextMain ==
    \/ RunMainPy
    \/ RunRunPy
    \/ Return

SpecMain == InitConfig /\ [][NextMain]_vars

\* ============================================================ save_result
\* A path or URL is a text in which "/" and "." are tokens of their own.
\* os.path.basename(p): what follows the last "/".
Basename(p) ==
    LET slashes == {i \in 1..Len(p) : p[i] = "/"}
        cut == IF slashes = {} THEN 0 ELSE CHOOSE i \in slashes : \A j \in slashes : j <= i
    IN  SubSeq(p, cut + 1, Len(p))

\* os.path.splitext(name)[0]: the name without its last extension; the dots
\* a name starts with begin no extension.
SplitextRoot(name) ==
    LET dots == {i \in 1..Len(name) :
                    /\ name[i] = "."
                    /\ \E j \in 1..(i - 1) : name[j] # "."}
        cut == IF dots = {} THEN Len(name) + 1
               ELSE CHOOSE i \in dots : \A j \in dots : j <= i
    IN  SubSeq(name, 1, cut - 1)

\* result.get(key, default) for a text-valued key.
GetOr(result, key, default) ==
    IF key \in DOMAIN result THEN result[key] ELSE default

\* `"image_url" in result and result["image_url"]`
HasImageUrl(result) ==
    "image_url" \in DOMAIN result /\ ~FalsyText(result.image_url)

PageText(result) ==
    IF "page_number" \in DOMAIN result THEN ToString(result.page_number)
    ELSE "unknown"

\* run.py save_result, lines 81-82: always the timestamp.
RunBaseName(result, now) == <<"result_", ToString(now)>>

\* main.py save_result, lines 94-103.
MainBaseNameKeepsExtension(result, now) ==
    IF HasImageUrl(result)
    THEN (IF Basename(result.image_url) = <<>> THEN <<"result">>
          ELSE Basename(result.image_url))
    ELSE IF "original_pdf" \in DOMAIN result /\ result.original_pdf
    THEN <<"pdf_page_", PageText(result)>>
    ELSE <<"result_", ToString(now)>>

MainBaseName(result, now) ==
    IF HasImageUrl(result)
    THEN (IF SplitextRoot(Basename(result.image_url)) = <<>> THEN <<"result">>
          ELSE SplitextRoot(Basename(result.image_url)))
    ELSE IF "original_pdf" \in DOMAIN result /\ result.original_pdf
    THEN <<"pdf_page_", PageText(result)>>
    ELSE <<"result_", ToString(now)>>

BaseName(script, result, now) ==
    IF script = "main" THEN MainBaseName(result, now) ELSE RunBaseName(result, now)

\* os.path.join(output_dir, f"{base_name}.{output_format}")
OutputPath(output_dir, base_name, output_format) ==
    output_dir \o <<"/">> \o base_name \o <<".", output_format>>

\* What the txt branch writes (main.py lines 112-118, run.py lines 90-93).
TxtContent(script, result) ==
    (IF script = "main"
     THEN <<"image URL: ">> \o GetOr(result, "image_url", <<"unknown">>) \o <<"\n">>
          \o (IF "original_pdf" \in DOMAIN result /\ result.original_pdf
              THEN <<"PDF page: ", PageText(result), "\n">> ELSE <<>>)
     ELSE <<>>)
    \o <<"\n=== recognition ===\n">>
    \o GetOr(result, "recognition_result", <<"no content">>)
    \o <<"\n\n=== analysis ===\n">>
    \o GetOr(result, "analysis_result", <<"no analysis">>)

\* `output_format.lower() == "json"`
IsJsonFormat(output_format) == output_format \in {"json", "JSON", "Json"}

\* save_result(result, output_dir, output_format) called at time now.
\* writable: the output directory can be created and written.
SaveResult(script, result, output_dir, output_format, now, writable) ==
    LET base_name == BaseName(script, result, now)
        output_path == OutputPath(output_dir, base_name, output_format)
    IN  IF ~writable
        THEN [raised |-> "OSError", base_name |-> base_name, path |-> <<>>,
              written |-> [format |-> "none"],
              events |-> <<LogError(<<"saving the result failed">>)>>]
        ELSE [raised |-> None, base_name |-> base_name, path |-> output_path,
              written |-> IF IsJsonFormat(output_format)
                          THEN [format |-> "json", data |-> result]
                          ELSE [format |-> "txt", text |-> TxtContent(script, result)],
              events |-> <<>>]

\* ------------------------------------------------- save_result at work
ImageUrls ==
    {NoneText, <<>>,
     <<"http:", "/", "/", "host", "/", "a", ".", "jpg">>,
     <<"http:", "/", "/", "host", "/">>,
     <<"input", "/", "a", ".", "tar", ".", "gz">>,
     <<".", "hidden">>,
     <<"pdf_page_", "1", ".", "png">>}

SuccessBody ==
    [status |-> "success", recognition_result |-> <<"rec">>, analysis_result |-> <<"ana">>]

\* The records handed to save_result: a process_image record, one of a PDF
\* page, a batch record, and records with keys missing.
SaveRecords ==
    {SuccessBody @@ [image_url |-> u] : u \in ImageUrls}
    \cup {SuccessBody @@ [image_url |-> u, original_pdf |-> TRUE, page_number |-> n] :
             u \in {NoneText, <<"pdf_page_", "1", ".", "png">>}, n \in 1..MaxPages}
    \cup {SuccessBody @@ [original_pdf |-> TRUE, page_number |-> n] : n \in 1..MaxPages}
    \cup {SuccessBody @@ [original_pdf |-> TRUE],
          SuccessBody @@ [original_pdf |-> FALSE],
          SuccessBody @@ [image_count |-> MaxBatch],
          SuccessBody,
          [status |-> "success"]}

OutputFormats == {"json", "txt", "JSON"}
OutputDirs == {<<"output">>}
Clock == {1700000000, 1700000001}

\* save_result(result, output_dir, output_format)
CallSaveResult ==
    /\ last = Idle
    /\ \E script \in Scripts, result \in SaveRecords, output_dir \in OutputDirs,
          output_format \in OutputFormats, now \in Clock, writable \in BOOLEAN :
          LET saved == SaveResult(script, result, output_dir, output_format,
                                  now, writable) IN
          last' = [op |-> "save_result", variant |-> script, input |-> result,
                   output_dir |-> output_dir, output_format |-> output_format,
                   now |-> now,
                   result |-> [base_name |-> saved.base_name, path |-> saved.path,
                               written |-> saved.written],
                   events |-> saved.events, raised |-> saved.raised]
    /\ UNCHANGED <<env, dotenv, config, processor, loggers>>

NextSave ==
    \/ CallSaveResult
    \/ Return

SpecSave == InitChain /\ [][NextSave]_vars

\* ========================== recognizer/image_recognizer.py, analyzer/
\* ImageRecognizer and ImageAnalyzer call the provider's SDK themselves and
\* read the reply either whole or as a stream of chunks.
RecognizerModel == "qwen-vl-max"
AnalyzerModel == "qwen-max"
RecognizerSystemPrompt == <<"system: image analysis assistant">>
AnalyzerSystemPrompt == <<"system: data analysis assistant, in depth">>
DefaultPrompt == <<"default_prompt">>
Placeholder == "{recognition_result}"
DefaultAnalysisPrompt == <<"default_analysis_prompt: ", Placeholder>>

\* template.format(recognition_result=r): every placeholder becomes r.
Format(template, r) ==
    Concat([i \in 1..Len(template) |->
               IF template[i] = Placeholder THEN r ELSE <<template[i]>>])

\* One chunk of a streamed reply: chunk.choices[0].delta.content, which is
\* None in chunks that carry no text (the role chunk, the finish chunk).
Delta(content) == [none |-> FALSE, content |-> content]
NoneDelta == [none |-> TRUE, content |-> <<>>]

\* A deterministic provider: the reply to a request is a function of its
\* messages, and a streamed reply is that text cut into chunks.
ChatReply(messages) ==
    <<"reply<">> \o messages.system \o <<"|">>
    \o (IF messages.kind = "blocks"
        THEN Concat([i \in 1..Len(messages.user) |-> messages.user[i].body])
        ELSE messages.user)
    \o <<">">>

\* The cut positions of a reply of length len sent in n chunks.
ChunkEnds(len, n) ==
    {e \in [1..n -> 0..len] :
        /\ e[n] = len
        /\ \A i \in 1..(n - 1) : e[i] <= e[i + 1]}

ChunkStart(e, i) == IF i = 1 THEN 0 ELSE e[i - 1]

ChunksAt(text, n, e) ==
    {[i \in 1..n |->
         IF i \in nones THEN NoneDelta
         ELSE Delta(SubSeq(text, ChunkStart(e, i) + 1, e[i]))] :
       nones \in SUBSET {i \in 1..n : e[i] = ChunkStart(e, i)}}

\* Every stream of at most MaxChunks chunks that carries the text.
Streams(text) ==
    UNION {UNION {ChunksAt(text, n, e) : e \in ChunkEnds(Len(text), n)} :
             n \in 1..MaxChunks}

\* for chunk in response: if content is not None: full_response += content
RECURSIVE ConsumeKeepsLast(_, _)
ConsumeKeepsLast(chunks, full_response) ==
    IF chunks = <<>> THEN full_response
    ELSE ConsumeKeepsLast(Tail(chunks),
             IF Head(chunks).none THEN full_response ELSE Head(chunks).content)

RECURSIVE Consume(_, _)
Consume(chunks, full_response) ==
    IF chunks = <<>> THEN full_response
    ELSE Consume(Tail(chunks),
             IF Head(chunks).none THEN full_response
             ELSE full_response \o Head(chunks).content)

\* print(content, end="") of every chunk that has content.
Printed(chunks) ==
    LET with == SelectSeq(chunks, LAMBDA c : ~c.none) IN
    [i \in 1..Len(with) |-> Ev("print", TRUE, with[i].content)]

\* client.chat.completions.create(model=..., messages=..., stream=...)
ChatRequest(model, messages, stream) ==
    [model |-> model, messages |-> messages, stream |-> stream]

\* What can go wrong with a request: nothing, the request itself (network,
\* authentication), or the connection while the stream is read.
Failures == {"none", "request", "stream"}

\* Lines 128-150 of the recognizer, 118-140 of the analyzer: the reply read
\* as a stream or whole.  whole is the record the non-stream branch builds.
ReadResponse(type, request, chunks, fail, whole) ==
    IF fail = "request"
    THEN [ok |-> FALSE, err |-> <<"Connection error.">>,
          events |-> <<Ev(type, FALSE, request)>>]
    ELSE IF request.stream /\ fail = "stream"
    THEN [ok |-> FALSE, err |-> <<"Connection error.">>,
          events |-> <<Ev(type, FALSE, request)>>]
    ELSE IF request.stream
    THEN [ok |-> TRUE, result |-> Str(Consume(chunks, <<>>)),
          events |-> <<Ev(type, TRUE, request)>> \o Printed(chunks)]
    ELSE [ok |-> TRUE, result |-> whole,
          events |-> <<Ev(type, TRUE, request)>>]

RecognizerMessages(image_path, prompt) ==
    [kind |-> "blocks",
     system |-> RecognizerSystemPrompt,
     user |-> <<ImageBlock(B64Encode(FileContent(image_path))),
                TextBlock(IF FalsyText(prompt) THEN DefaultPrompt ELSE prompt)>>]

RecognizerError(image_path, err, events) ==
    Out([status |-> "error", image_path |-> image_path, error |-> err],
        events \o <<LogError(<<"error while processing: ">> \o err)>>)

\* ImageRecognizer.recognize_image(image_path, prompt, stream).  file says
\* whether image_path names a file: "ok", "missing", or "unreadable".
RecognizeImageNoExistsCheck(image_path, file, prompt, stream, chunks, fail) ==
    LET request == ChatRequest(RecognizerModel,
                               RecognizerMessages(image_path, prompt), stream)
        whole == [status |-> "success", image_path |-> image_path,
                  content |-> ChatReply(request.messages),
                  model |-> RecognizerModel]
        read == ReadResponse("recognition", request, chunks, fail, whole)
    IN  IF ~read.ok THEN RecognizerError(image_path, read.err, read.events)
        ELSE Out(read.result, read.events)

RecognizeImage(image_path, file, prompt, stream, chunks, fail) ==
    LET request == ChatRequest(RecognizerModel,
                               RecognizerMessages(image_path, prompt), stream)
        whole == [status |-> "success", image_path |-> image_path,
                  content |-> ChatReply(request.messages),
                  model |-> RecognizerModel]
        read == ReadResponse("recognition", request, chunks, fail, whole)
    IN  IF file = "missing"
        THEN RecognizerError(image_path,
                             <<"image file does not exist: ">> \o image_path, <<>>)
        ELSE IF file = "unreadable"
        THEN RecognizerError(image_path,
                             <<"Permission denied: ">> \o image_path,
                             <<LogError(<<"image encoding failed">>)>>)
        ELSE IF ~read.ok THEN RecognizerError(image_path, read.err, read.events)
        ELSE Out(read.result, read.events)

AnalyzerMessages(recognition_content, prompt) ==
    [kind |-> "text",
     system |-> AnalyzerSystemPrompt,
     user |-> Format(IF FalsyText(prompt) THEN DefaultAnalysisPrompt ELSE prompt,
                     recognition_content)]

AnalyzerError(err, events) ==
    Out([status |-> "error", error |-> err],
        events \o <<LogError(<<"error while analysing: ">> \o err)>>)

\* recognition_result.get("content", "")
ContentOf(recognition_result) ==
    IF "content" \in DOMAIN recognition_result THEN recognition_result.content
    ELSE <<>>

AnalyzeResultNoErrorCheck(recognition_result, prompt, stream, chunks, fail) ==
    LET request == ChatRequest(AnalyzerModel,
                      AnalyzerMessages(ContentOf(recognition_result), prompt), stream)
        whole == [status |-> "success", recognition_result |-> recognition_result,
                  analysis |-> ChatReply(request.messages),
                  model |-> AnalyzerModel]
        read == ReadResponse("analysis", request, chunks, fail, whole)
    IN  IF "kind" \in DOMAIN recognition_result
        THEN AnalyzerError(<<"'str' object has no attribute 'get'">>, <<>>)
        ELSE IF ~read.ok THEN AnalyzerError(read.err, read.events)
        ELSE Out(read.result, read.events)

\* ImageAnalyzer.analyze_result(recognition_result, prompt, stream).
AnalyzeResult(recognition_result, prompt, stream, chunks, fail) ==
    LET request == ChatRequest(AnalyzerModel,
                      AnalyzerMessages(ContentOf(recognition_result), prompt), stream)
        whole == [status |-> "success", recognition_result |-> recognition_result,
                  analysis |-> ChatReply(request.messages),
                  model |-> AnalyzerModel]
        read == ReadResponse("analysis", request, chunks, fail, whole)
    IN  IF "kind" \in DOMAIN recognition_result
        THEN AnalyzerError(<<"'str' object has no attribute 'get'">>, <<>>)
        ELSE IF recognition_result.status = "error"
        THEN Out([status |-> "error",
                  error |-> <<"cannot analyse a failed recognition: ">>
                            \o recognition_result.error],
                 <<LogError(<<"recognition result holds an error: ">>
                            \o recognition_result.error)>>)
        ELSE IF ~read.ok THEN AnalyzerError(read.err, read.events)
        ELSE Out(read.result, read.events)

\* ------------------------------------------------ the two stages at work
ImagePaths == {<<"input/a", ".", "jpg">>, <<"b", ".", "png">>}
FileStates == {"ok", "missing", "unreadable"}
Prompts == {NoneText, <<>>, <<"custom: ", Placeholder>>}

\* What a caller hands to analyze_result: a record recognize_image returned
\* (success or error), a record without content, or the text the stream
\* mode of recognize_image returned.
RecognitionResults ==
    {RecognizeImage(p, f, NoneText, FALSE, <<>>, "none").result :
        p \in ImagePaths, f \in {"ok", "missing"}}
    \cup {[status |-> "success"], Str(<<"text">>)}

\* The streams the provider may send for a request (none unless streamed).
StreamsFor(request) ==
    IF request.stream THEN Streams(ChatReply(request.messages)) ELSE {<<>>}

StageCall(op, input, file, prompt, stream, chunks, fail, out) ==
    [op |-> op, input |-> input, file |-> file, prompt |-> prompt,
     stream |-> stream, chunks |-> chunks, fail |-> fail,
     result |-> out.result, events |-> out.events, raised |-> None]

InitStages ==
    /\ loggers = NoLoggers
    /\ env = "sk-key"
    /\ dotenv = None
    /\ config = NoConfig
    /\ processor = NoProcessor
    /\ last = Idle

\* recognizer.recognize_image(image_path, prompt, stream)
CallRecognizeImage ==
    /\ last = Idle
    /\ \E image_path \in ImagePaths, file \in FileStates, prompt \in Prompts,
          stream \in BOOLEAN, fail \in Failures :
          \E chunks \in StreamsFor(ChatRequest(RecognizerModel,
                            RecognizerMessages(image_path, prompt), stream)) :
             /\ fail = "stream" => stream
             /\ last' = StageCall("recognize_image", image_path, file, prompt,
                            stream, chunks, fail,
                            RecognizeImage(image_path, file, prompt, stream,
                                           chunks, fail))
    /\ UNCHANGED <<env, dotenv, config, processor, loggers>>

\* analyzer.analyze_result(recognition_result, prompt, stream)
CallAnalyzeResult ==
    /\ last = Idle
    /\ \E recognition_result \in RecognitionResults, prompt \in Prompts,
          stream \in BOOLEAN, fail \in Failures :
          \E chunks \in StreamsFor(ChatRequest(AnalyzerModel,
                            AnalyzerMessages(
                                IF "kind" \in DOMAIN recognition_result THEN <<>>
                                ELSE ContentOf(recognition_result), prompt),
                            stream)) :
             /\ fail = "stream" => stream
             /\ last' = StageCall("analyze_result", recognition_result, "ok",
                            prompt, stream, chunks, fail,
                            AnalyzeResult(recognition_result, prompt, stream,
                                          chunks, fail))
    /\ UNCHANGED <<env, dotenv, config, processor, loggers>>

NextStages ==
    \/ CallRecognizeImage
    \/ CallAnalyzeResult
    \/ Return

SpecStages == InitStages /\ [][NextStages]_vars

\* ================================== utils/logger.py at work (logging)
LevelNames == {"NOTSET", "DEBUG", "INFO", "WARNING", "ERROR"}

\* logging's numeric levels, in tens.
LevelNo(level) ==
    IF level = "NOTSET" THEN 0
    ELSE IF level = "DEBUG" THEN 1
    ELSE IF level = "INFO" THEN 2
    ELSE IF level = "WARNING" THEN 3
    ELSE 4

\* A handler: where it writes, its own level, the fields of its format.
Handler(kind, level, fields) == [kind |-> kind, level |-> level, fields |-> fields]

ConsoleHandler == Handler("console", "INFO", <<"asctime", "levelname", "message">>)

FileHandler(level) ==
    Handler("file", level, <<"asctime", "name", "levelname", "message">>)

\* logger.setLevel of the two modules.
SetupLevel(variant) == IF variant = "legacy" THEN "INFO" ELSE "DEBUG"

SetupOut(ok, logger) == [ok |-> ok, logger |-> logger]

SetupLoggerNoHandlersCheck(variant, logger, standalone, file_ok) ==
    LET lg == [logger EXCEPT !.level = SetupLevel(variant)] IN
    IF ~file_ok THEN SetupOut(FALSE, lg)
    ELSE SetupOut(TRUE, [lg EXCEPT !.handlers =
                            @ \o <<ConsoleHandler, FileHandler(SetupLevel(variant))>>])

\* setup_logger(name) on the logger getLogger(name) returns.  standalone:
\* __package__ is empty (chat2table only); file_ok: logs/ can be made and
\* the log file opened, otherwise makedirs or FileHandler raises.
SetupLogger(variant, logger, standalone, file_ok) ==
    LET lg == [logger EXCEPT !.level = SetupLevel(variant)] IN
    IF lg.handlers # <<>> THEN SetupOut(TRUE, lg)
    ELSE IF variant = "legacy"
    THEN IF file_ok
         THEN SetupOut(TRUE, [lg EXCEPT !.handlers =
                                 <<ConsoleHandler, FileHandler("INFO")>>])
         ELSE SetupOut(FALSE, lg)
    ELSE IF ~standalone
    THEN SetupOut(TRUE, [lg EXCEPT !.handlers = <<ConsoleHandler>>])
    ELSE IF file_ok
    THEN SetupOut(TRUE, [lg EXCEPT !.handlers =
                            <<ConsoleHandler, FileHandler("DEBUG")>>])
    ELSE SetupOut(FALSE, [lg EXCEPT !.handlers = <<ConsoleHandler>>])

\* Logger.getEffectiveLevel: the first level set on the way to the root.
EffectiveLevel(ls, name) ==
    IF ls[name].level # "NOTSET" THEN ls[name].level ELSE ls[None].level

\* Logger.callHandlers: the handlers of the logger, then those of the root
\* (propagate is never switched off).
HandlersFor(ls, name) ==
    IF name = None THEN ls[None].handlers
    ELSE ls[name].handlers \o ls[None].handlers

\* CustomFormatter.format: a bytes message becomes a placeholder.
FormatMessage(msg) == IF msg.kind = "bytes" THEN <<"<binary data>">> ELSE msg.val

FormatLine(h, name, level, msg) ==
    Concat([i \in 1..Len(h.fields) |->
               IF h.fields[i] = "name" THEN <<IF name = None THEN "root" ELSE name>>
               ELSE IF h.fields[i] = "levelname" THEN <<level>>
               ELSE IF h.fields[i] = "message" THEN FormatMessage(msg)
               ELSE <<"<time>">>])

\* logger.log(level, msg) on getLogger(name): the lines written, in order.
\* Without any handler on the way, logging's lastResort handler writes
\* messages from WARNING up to stderr, unformatted.
EmitLines(ls, name, level, msg) ==
    LET hs == HandlersFor(ls, name)
        takers == SelectSeq(hs, LAMBDA h : LevelNo(level) >= LevelNo(h.level))
    IN  IF LevelNo(level) < LevelNo(EffectiveLevel(ls, name)) THEN <<>>
        ELSE IF hs = <<>>
        THEN IF LevelNo(level) >= LevelNo("WARNING")
             THEN <<Ev("line", TRUE, [sink |-> "stderr", text |-> FormatMessage(msg)])>>
             ELSE <<>>
        ELSE [i \in 1..Len(takers) |->
                 Ev("line", TRUE, [sink |-> takers[i].kind,
                                   text |-> FormatLine(takers[i], name, level, msg)])]

LogMessages == {Str(<<"processing">>), Bytes(<<"A">>)}

LoggerCall(op, variant, name, before, level, msg, out, events, raised) ==
    [op |-> op, variant |-> variant, input |-> name, before |-> before,
     level |-> level, msg |-> msg, result |-> out, events |-> events,
     raised |-> raised]

InitLogger ==
    /\ env = "sk-key"
    /\ dotenv = None
    /\ config = NoConfig
    /\ processor = NoProcessor
    /\ loggers = NoLoggers
    /\ last = Idle

\* setup_logger(name) of either module.
CallSetupLogger ==
    /\ last = Idle
    /\ \E variant \in Variants, name \in LoggerNames,
          standalone \in BOOLEAN, file_ok \in BOOLEAN :
          LET r == SetupLogger(variant, loggers[name], standalone, file_ok) IN
          /\ loggers' = [loggers EXCEPT ![name] = r.logger]
          /\ last' = LoggerCall("setup_logger", variant, name, loggers[name],
                                None, Str(<<>>), r.logger, <<>>,
                                IF r.ok THEN None ELSE "OSError")
    /\ UNCHANGED <<env, dotenv, config, processor>>

\* logging.getLogger(name).debug / info / error (msg)
CallLog ==
    /\ last = Idle
    /\ \E name \in LoggerNames, level \in {"DEBUG", "INFO", "ERROR"},
          msg \in LogMessages :
          last' = LoggerCall("log", "legacy", name, loggers[name], level, msg,
                             loggers[name], EmitLines(loggers, name, level, msg),
                             None)
    /\ UNCHANGED <<env, dotenv, config, processor, loggers>>

NextLogger ==
    \/ CallSetupLogger
    \/ CallLog
    \/ Return

SpecLogger == InitLogger /\ [][NextLogger]_vars

\* ======================================================= claims, chain
CountEvents(events, type) ==
    Cardinality({i \in 1..Len(events) : events[i].type = type})

HasFailed(events, type) ==
    \E i \in 1..Len(events) : events[i].type = type /\ ~events[i].ok

AnyCallFailed(events) ==
    \E i \in 1..Len(events) : ~events[i].ok

NoApiCall(events) ==
    \A i \in 1..Len(events) :
        events[i].type \notin {"download", "recognition", "analysis"}

\* An input that is no URL string, no bytes, no BytesIO buffer and no image
\* object that JPEG can hold.
Unsupported(image_data) ==
    \/ image_data.kind = "other"
    \/ image_data.kind = "str" /\ ~StartsWithAny(image_data.val, UrlPrefixes)
    \/ image_data.kind = "PIL" /\ image_data.val[1] = "RGBA"

IsErrorRecord(r) ==
    /\ r.status = "error"
    /\ "error" \in DOMAIN r

\* C1 (as claimed): a batch of N >= 1 images that process_multiple_images
\* carries through to a success record has issued exactly one request to
\* the recognition model and exactly one to the analysis model.
C1_OneCallPerStage ==
    (/\ last.op = "process_multiple_images"
     /\ Len(last.input) >= 1
     /\ last.result.status = "success")
    => /\ CountEvents(last.events, "recognition") = 1
       /\ CountEvents(last.events, "analysis") = 1

\* C2: process_image of either chain, process_multiple_images of the
\* chat2table chain and the two wrappers of main.py let no exception out,
\* and whenever a download, a recognition request or an analysis request
\* failed, or the input could not be normalised, what they return is a
\* record with status "error" that carries an error message.
C2_FailureBecomesErrorRecord ==
    (/\ last.op \in {"process_image", "process_multiple_images",
                     "main.process_image", "main.process_local_image"}
     /\ last.op = "process_multiple_images" => last.variant = "chat2table")
    => /\ last.raised = None
       /\ last.result.status \in {"success", "error"}
       /\ (\/ AnyCallFailed(last.events)
           \/ last.op = "process_image" /\ Unsupported(last.input)
           \/ last.op = "process_multiple_images"
              /\ \E i \in 1..Len(last.input) : Unsupported(last.input[i]))
          => IsErrorRecord(last.result)

C2_Witness ==
    /\ last.op = "process_multiple_images"
    /\ last.variant = "chat2table"
    /\ Len(last.input) = MaxBatch
    /\ HasFailed(last.events, "analysis")
    /\ IsErrorRecord(last.result)

\* C3: in process_image a failed recognition request is the last request of
\* the invocation (the analysis model is not called), and a failed request
\* of either stage gives an error record, which carries no recognition
\* output.
C3_ShortCircuit ==
    last.op = "process_image"
    => /\ HasFailed(last.events, "recognition")
          => CountEvents(last.events, "analysis") = 0
       /\ (HasFailed(last.events, "recognition") \/ HasFailed(last.events, "analysis"))
          => /\ IsErrorRecord(last.result)
             /\ "recognition_result" \notin DOMAIN last.result
             /\ "analysis_result" \notin DOMAIN last.result

C3_Witness ==
    /\ last.op = "process_image"
    /\ CountEvents(last.events, "recognition") = 1
    /\ HasFailed(last.events, "analysis")
    /\ last.result.status = "error"

\* C4: process_image on an input that is neither a URL string, bytes, a
\* BytesIO buffer nor a supported image object returns an error record
\* without any download, recognition request or analysis request.
C4_UnsupportedInputNoCall ==
    (last.op = "process_image" /\ Unsupported(last.input))
    => /\ IsErrorRecord(last.result)
       /\ NoApiCall(last.events)

C4_Witness ==
    /\ last.op = "process_image"
    /\ last.input.kind = "other"
    /\ last.result.status = "error"
    /\ NoApiCall(last.events)

\* C8 (as claimed): when the normalisation of any image of the list given
\* to process_multiple_images fails, the record returned has status "error".
C8_BatchAborts ==
    (/\ last.op = "process_multiple_images"
     /\ \/ \E i \in 1..Len(last.input) : Unsupported(last.input[i])
        \/ HasFailed(last.events, "download"))
    => last.result.status = "error"

\* ====================================================== claims, config
\* C5: a ModelConfig construction with no api_key argument and no
\* DASHSCOPE_API_KEY in the environment raises with the message that names
\* the missing credential, yields no object, and sends nothing; and no
\* model client ever exists without a credential.
C5_NoCredentialNoConfig ==
    /\ (/\ last.op = "ModelConfig"
        /\ Falsy(last.input.api_key)
        /\ Falsy(last.env))
       => /\ last.raised \in {"ConfigError", "ValueError"}
          /\ last.msg = MsgNoApiKey
          /\ last.result = NoConfig
          /\ last.events = <<>>
    /\ config # NoConfig => ~Falsy(config.api_key)
    /\ processor # NoProcessor
       => /\ ~Falsy(processor.recognition_model.api_key)
          /\ ~Falsy(processor.analysis_model.api_key)

C5_Witness ==
    /\ last.op = "ModelConfig"
    /\ last.input.api_key = None
    /\ last.env = None
    /\ last.raised # None
    /\ config = NoConfig
    /\ processor = NoProcessor

ValidValues(cfg) ==
    /\ 0 <= cfg.temperature /\ cfg.temperature <= 10
    /\ cfg.max_tokens > 0
    /\ cfg.recognition_model # ""
    /\ cfg.analysis_model # ""
    /\ StartsWithAny(cfg.base_url, {<<"http://">>, <<"https://">>})

\* C6 (as claimed): no ModelConfig object exists whose temperature is
\* outside 0..1, whose max_tokens is not positive, whose model identifier
\* is empty or whose base URL has no http:// or https:// prefix.
C6_ConfigAlwaysValid ==
    config # NoConfig => ValidValues(config)

\* ======================================================= claims, files
\* The JSON values whose text has at most MaxJsonLen tokens.
RECURSIVE JsonValues(_)
JsonValues(depth) ==
    IF depth = 0 THEN {JsonNumber, JsonDict(<<>>), JsonList(<<>>)}
    ELSE JsonValues(depth - 1)
         \cup {JsonList(es) : es \in SeqsUpTo(JsonValues(depth - 1), MaxJsonLen \div 2)}

\* json.dumps(v), as tokens.
RECURSIVE Dumps(_)
Dumps(v) ==
    IF v.type = "number" THEN <<"1">>
    ELSE IF v.type = "dict" THEN <<"{", "}">>
    ELSE <<"[">> \o Join([i \in 1..Len(v.items) |-> Dumps(v.items[i])], <<",">>) \o <<"]">>

ValidJson == {v \in JsonValues(MaxJsonLen \div 2) : Len(Dumps(v)) <= MaxJsonLen}

PagesOf(script, f, entries) ==
    SelectSeq(entries,
        LAMBDA e : /\ e.page # NoPage
                   /\ e.data.kind = (IF script = "main" THEN "PIL" ELSE "bytes")
                   /\ f.name \in Range(e.data.val))

\* C10: convert_pdf_to_images on a PDF of K pages gives exactly K entries,
\* entry i being page i numbered i; in the list get_input_files returns the
\* pages of each PDF that converts appear once each, in page order; and
\* process_local_image on one page sends the model that one page only.
C10_PagesInOrder ==
    /\ (last.op = "convert_pdf_to_images" /\ last.raised = None)
       => /\ Len(last.result) = last.input.pages
          /\ \A i \in 1..Len(last.result) :
                /\ last.result[i].page = i
                /\ last.result[i].data \in
                      {PageImage(last.input, i),
                       Bytes(SaveAs(PageImage(last.input, i), "PNG"))}
    /\ last.op = "get_input_files"
       => \A k \in 1..Len(last.input) :
             LET f == last.input[k] IN
             (f.ext \in {"pdf", "PDF"} /\ f.ok)
             => LET ps == PagesOf(last.variant, f, last.result) IN
                /\ Len(ps) = f.pages
                /\ \A i \in 1..Len(ps) : ps[i].page = i
    /\ (last.op = "main.process_local_image" /\ last.page # NoPage)
       => /\ CountEvents(last.events, "recognition") <= 1
          /\ \A i \in 1..Len(last.events) :
                last.events[i].type = "recognition"
                => last.events[i].req.user =
                      <<ImageBlock(B64Encode(SaveAs(last.input, "PNG"))),
                        TextBlock(IMAGE_RECOGNITION_TEMPLATE)>>

C10_Witness ==
    /\ last.op = "get_input_files"
    /\ \E k \in 1..Len(last.input) :
          /\ last.input[k].ext = "pdf"
          /\ last.input[k].ok
          /\ last.input[k].pages = MaxPages
    /\ \E k \in 1..Len(last.input) :
          /\ last.input[k].ext = "PDF"
          /\ last.input[k].ok
          /\ last.input[k].pages = MaxPages
    /\ Len(last.result) >= 2 * MaxPages

\* ================================================ claims, entry points
\* No credential: DASHSCOPE_API_KEY is neither in the environment nor
\* supplied by a .env file.
CredentialMissing(e, d) == Falsy(e) /\ (d = None \/ e = "" \/ Falsy(d))

\* No input: main.py got no URL, no image and nothing on standard input;
\* run.py found no readable image and no page in the input directory.
InputMissing(run) ==
    IF run.op = "main.py"
    THEN /\ FalsyText(run.input.url)
         /\ FalsyText(run.input.image)
         /\ \A i \in 1..Len(run.input.stdin) : run.input.stdin[i] \in Whitespace
    ELSE \A i \in 1..Len(run.input) :
            LET f == run.input[i] IN
            \/ f.ext = "txt"
            \/ ~f.ok
            \/ f.ext \in {"pdf", "PDF"} /\ f.pages = 0

Logged(events) ==
    \E i \in 1..Len(events) : events[i].type \in {"log_error", "log_warning"}

\* C9 (as claimed): a run of main() with no credential or with no input
\* writes a log line and ends without any request to a model.
C9_ConfigErrorLogsAndExits ==
    (/\ last.op \in {"main.py", "run.py"}
     /\ CredentialMissing(last.env, dotenv) \/ InputMissing(last))
    => /\ Logged(last.events)
       /\ CountEvents(last.events, "recognition") = 0
       /\ CountEvents(last.events, "analysis") = 0

\* ======================================================= claims, stages
\* What the non-stream call returns for the input of the last call.
WholeOfLast ==
    IF last.op = "recognize_image"
    THEN RecognizeImage(last.input, last.file, last.prompt, FALSE, <<>>, "none").result.content
    ELSE AnalyzeResult(last.input, last.prompt, FALSE, <<>>, "none").result.analysis

StreamedThrough ==
    /\ last.op \in {"recognize_image", "analyze_result"}
    /\ last.stream
    /\ "kind" \in DOMAIN last.result

PrintedText(events) ==
    LET ps == SelectSeq(events, LAMBDA e : e.type = "print") IN
    Concat([i \in 1..Len(ps) |-> ps[i].req])

\* C11: a streamed recognize_image or analyze_result call that runs to its
\* end returns, and has printed piece by piece, exactly the text the
\* non-stream call returns as content for the same input, however the
\* provider cuts the reply into chunks and wherever it puts chunks whose
\* content is None.
C11_StreamEqualsWhole ==
    StreamedThrough
    => /\ last.result = Str(WholeOfLast)
       /\ PrintedText(last.events) = WholeOfLast

C11_Witness ==
    /\ StreamedThrough
    /\ Len(last.chunks) = MaxChunks
    /\ \E i \in 1..Len(last.chunks) : last.chunks[i].none
    /\ \E i, j \in 1..Len(last.chunks) :
          /\ i # j
          /\ last.chunks[i].content # <<>>
          /\ last.chunks[j].content # <<>>

\* ================================================ claims, chain (cont.)
ModelCall(e) == e.type \in {"recognition", "analysis"}

\* C12: process_image of either chain and process_multiple_images of the
\* chat2table chain send at most one recognition request and at most one
\* analysis request, and send nothing to a model after a request that
\* failed; process_multiple_images of the legacy chain, which works image
\* by image, sends at most one recognition request per image and at most
\* one analysis request per image and one for the batch.
C12_NoRetry ==
    last.op \in {"process_image", "process_multiple_images"}
    => /\ (last.op = "process_image" \/ last.variant = "chat2table")
          => /\ CountEvents(last.events, "recognition") <= 1
             /\ CountEvents(last.events, "analysis") <= 1
             /\ \A i, j \in 1..Len(last.events) :
                   (i < j /\ ModelCall(last.events[i]) /\ ~last.events[i].ok)
                   => ~ModelCall(last.events[j])
       /\ (last.op = "process_multiple_images" /\ last.variant = "legacy")
          => /\ CountEvents(last.events, "recognition") <= Len(last.input)
             /\ CountEvents(last.events, "analysis") <= Len(last.input) + 1

C12_Witness ==
    /\ last.op = "process_multiple_images"
    /\ last.variant = "chat2table"
    /\ Len(last.input) = MaxBatch
    /\ HasFailed(last.events, "recognition")
    /\ CountEvents(last.events, "recognition") = 1
    /\ CountEvents(last.events, "analysis") = 0

\* ========================================= claims, entry points (cont.)
\* A run that went through: nothing raised, nothing logged as an error,
\* and the analysis model answered.
RunSucceeded(run) ==
    /\ run.raised = None
    /\ \A i \in 1..Len(run.events) : run.events[i].type # "log_error"
    /\ \E i \in 1..Len(run.events) :
          run.events[i].type = "analysis" /\ run.events[i].ok

\* The inputs of a run: the one image of main.py, the entries run.py finds.
InputsProcessed(run) ==
    IF run.op = "main.py" THEN 1 ELSE Len(GetInputFiles("run", run.input))

\* C13 (as claimed): a run of main() that went through has saved one result
\* file for every input it processed.
C13_FilePerInput ==
    (last.op \in {"main.py", "run.py"} /\ RunSucceeded(last))
    => CountEvents(last.events, "save_result") = InputsProcessed(last)

\* ========================================================= claims, save
\* The base name the claim describes, for the record and time of a call.
ClaimedBaseName(result, now) ==
    IF HasImageUrl(result)
    THEN (IF SplitextRoot(Basename(result.image_url)) = <<>> THEN <<"result">>
          ELSE SplitextRoot(Basename(result.image_url)))
    ELSE IF "original_pdf" \in DOMAIN result /\ result.original_pdf
    THEN <<"pdf_page_", PageText(result)>>
    ELSE <<"result_", ToString(now)>>

C15_MissingFileIsError ==
    (last.op = "recognize_image" /\ last.file = "missing")
    => /\ last.raised = None
       /\ "status" \in DOMAIN last.result
       /\ last.result.status = "error"
       /\ last.result.image_path = last.input
       /\ IsErrorRecord(last.result)
       /\ last.result.error # <<>>
       /\ NoApiCall(last.events)

C15_Witness ==
    /\ last.op = "recognize_image"
    /\ last.file = "missing"
    /\ last.stream
    /\ "status" \in DOMAIN last.result
    /\ last.result.status = "error"
    /\ Logged(last.events)

\* ================================================ claims, chain (cont.)
\* The positions of the requests sent to a model.
ModelCalls(events) == {i \in 1..Len(events) : ModelCall(events[i])}

\* C16: a successful process_image (either chain) or chat2table
\* process_multiple_images has sent exactly two requests, the recognition
\* request first and the analysis request after it; the text put into the
\* analysis template is exactly the reply to the recognition request, and
\* the record holds exactly the two replies.
C16_PassThrough ==
    (/\ last.op \in {"process_image", "process_multiple_images"}
     /\ last.op = "process_multiple_images" => last.variant = "chat2table"
     /\ last.result.status = "success")
    => \E i, j \in ModelCalls(last.events) :
          /\ i < j
          /\ ModelCalls(last.events) = {i, j}
          /\ last.events[i].type = "recognition" /\ last.events[i].ok
          /\ last.events[j].type = "analysis" /\ last.events[j].ok
          /\ last.events[j].req.user =
                FormatAnalysisTemplate(RecognitionReply(last.events[i].req))
          /\ last.result.recognition_result = RecognitionReply(last.events[i].req)
          /\ last.result.analysis_result = AnalysisReply(last.events[j].req)

C16_Witness ==
    /\ last.op = "process_multiple_images"
    /\ last.variant = "chat2table"
    /\ Len(last.input) = MaxBatch
    /\ last.result.status = "success"
    /\ last.result.recognition_result # <<>>
    /\ CountEvents(last.events, "analysis") = 1

\* The images of the last call, as the list a recognition request is built
\* from: the one image of process_image, the list of the batch.
ImagesOfLast ==
    IF last.op = "process_image" THEN <<last.input>> ELSE last.input

\* The bytes an image is normalised to once its download, if any, worked.
BytesOf(variant, image_data) ==
    Normalize(variant, image_data, [down |-> FALSE, rec |-> {}, ana |-> {}]).bytes

\* C17: every recognition request of process_image (either chain) and of
\* the chat2table process_multiple_images is a system message and one user
\* message whose content is, for the N images of the call, N image blocks,
\* the i-th holding the base64 text of the i-th image, and then one text
\* block holding the recognition instruction.
C17_RecognitionMessageShape ==
    (/\ last.op \in {"process_image", "process_multiple_images"}
     /\ last.op = "process_multiple_images" => last.variant = "chat2table")
    => \A k \in 1..Len(last.events) :
          last.events[k].type = "recognition"
          => LET req == last.events[k].req
                 n == Len(ImagesOfLast)
             IN  /\ DOMAIN req = {"system", "user"}
                 /\ req.system = RecognitionSystemPrompt
                 /\ Len(req.user) = n + 1
                 /\ \A i \in 1..n :
                       req.user[i] =
                          [type |-> "image_url",
                           body |-> DataUrl(B64Encode(
                                       BytesOf(last.variant, ImagesOfLast[i])))]
                 /\ req.user[n + 1] =
                       [type |-> "text", body |-> IMAGE_RECOGNITION_TEMPLATE]

C17_Witness ==
    /\ last.op = "process_multiple_images"
    /\ last.variant = "chat2table"
    /\ Len(last.input) = MaxBatch
    /\ last.input[1] # last.input[MaxBatch]
    /\ CountEvents(last.events, "recognition") = 1

IsHttpUrl(t) == StartsWithAny(t, {<<"http://">>, <<"https://">>})

\* C18: process_image of main.py, given a string: one that starts with
\* http:// or https:// reaches the chain as it is (the chain's first step is
\* the download of that very URL); any other string that base64-decodes
\* reaches the chain as the decoded bytes (nothing is downloaded, and the
\* recognition request holds the encoding of those bytes); a string that
\* does not decode gives an error record and no request at all.
C18_UrlOrBase64 ==
    (last.op = "main.process_image" /\ last.input.kind = "str")
    => LET t == last.input.val
           ev == last.events
       IN  /\ IsHttpUrl(t)
              => /\ ev # <<>>
                 /\ ev[1].type = "download"
                 /\ ev[1].req = t
                 /\ last.result.status = "success" => last.result.image_url = t
           /\ (~IsHttpUrl(t) /\ B64Decodes(t))
              => /\ CountEvents(ev, "download") = 0
                 /\ ev # <<>>
                 /\ ev[1].type = "recognition"
                 /\ ev[1].req.user[1].body = DataUrl(B64Encode(B64Decode(t)))
           /\ (~IsHttpUrl(t) /\ ~B64Decodes(t))
              => /\ last.result.status = "error"
                 /\ NoApiCall(ev)

C18_Witness ==
    /\ last.op = "main.process_image"
    /\ last.input = Str(<<"QUJD", ".", "REVG">>)
    /\ last.result.status = "success"
    /\ CountEvents(last.events, "recognition") = 1

C20_RequestsShareNoState ==
    [][/\ processor'.config = processor.config
       /\ processor'.recognition_model = processor.recognition_model
       /\ processor'.analysis_model = processor.analysis_model
       /\ processor'.output_parser = processor.output_parser
       /\ config' = config
       /\ processor' = NewProcessor(config', TRUE)]_vars

C20_Witness ==
    /\ last # Idle
    /\ last.op \in {"process_image", "process_multiple_images"}
    /\ last.variant = "chat2table"
    /\ last.result.status = "success"
    /\ processor = NewProcessor(config, TRUE)
    /\ processor.recognition_model # processor.analysis_model

\* The requests of one type made by an invocation, in order.
RequestsOf(events, type) ==
    SelectSeq(events, LAMBDA e : e.type = type)

IsUrlString(image_data) ==
    image_data.kind = "str" /\ StartsWithAny(image_data.val, UrlPrefixes)

IsOtherString(image_data) ==
    image_data.kind = "str" /\ ~StartsWithAny(image_data.val, UrlPrefixes)

MsgUnsupportedUrl(image_data) == <<"unsupported URL format: ">> \o image_data.val

\* C21: a string without one of the prefixes http://, https://, file:// is
\* refused with the unsupported-URL message and nothing is requested for it
\* or after it; a string with one of them is requested from its URL once,
\* and what the recognition model receives in its place is the base64 text
\* of the bytes that request returned.
C21_PrefixDecidesDownload ==
    /\ (last.op = "process_image" /\ IsOtherString(last.input))
       => /\ IsErrorRecord(last.result)
          /\ last.result.error = MsgUnsupportedUrl(last.input)
          /\ NoApiCall(last.events)
    /\ (last.op = "process_image" /\ IsUrlString(last.input))
       => /\ RequestsOf(last.events, "download")
             \in {<<Ev("download", TRUE, last.input.val)>>,
                  <<Ev("download", FALSE, last.input.val)>>}
          /\ last.events[1].type = "download"
          /\ HasFailed(last.events, "download")
             => (IsErrorRecord(last.result)
                 /\ CountEvents(last.events, "recognition") = 0)
          /\ ~HasFailed(last.events, "download")
             => /\ CountEvents(last.events, "recognition") = 1
                /\ RequestsOf(last.events, "recognition")[1].req.user[1]
                   = ImageBlock(B64Encode(UrlContent(last.input.val)))
    /\ (last.op = "process_multiple_images" /\ last.variant = "chat2table")
       => /\ \A i \in 1..Len(last.input) :
                IsOtherString(last.input[i])
                => /\ IsErrorRecord(last.result)
                   /\ CountEvents(last.events, "recognition") = 0
                   /\ CountEvents(last.events, "analysis") = 0
                   /\ CountEvents(last.events, "download")
                      <= Cardinality({j \in 1..(i - 1) : IsUrlString(last.input[j])})
          /\ CountEvents(last.events, "recognition") > 0
             => /\ CountEvents(last.events, "download")
                   = Cardinality({j \in 1..Len(last.input) : IsUrlString(last.input[j])})
                /\ \A i \in 1..Len(last.input) :
                      IsUrlString(last.input[i])
                      => RequestsOf(last.events, "recognition")[1].req.user[i]
                         = ImageBlock(B64Encode(UrlContent(last.input[i].val)))

C21_Witness ==
    /\ last.op = "process_multiple_images"
    /\ last.variant = "chat2table"
    /\ Len(last.input) = 2
    /\ IsUrlString(last.input[1])
    /\ IsUrlString(last.input[2])
    /\ CountEvents(last.events, "download") = 2
    /\ last.result.status = "success"

ChainOps == {"process_image", "process_multiple_images"}

WrapperOps == {"main.process_image", "main.process_local_image"}

\* C22: a record returned by process_image, process_multiple_images or one
\* of the two wrappers of main.py has status "success" or "error", has an
\* "error" key exactly when its status is "error", and has both
\* recognition_result and analysis_result when its status is "success".
C22_RecordWellFormed ==
    last.op \in ChainOps \cup WrapperOps
    => /\ last.result.status \in {"success", "error"}
       /\ "error" \in DOMAIN last.result <=> last.result.status = "error"
       /\ last.result.status = "success"
          => {"recognition_result", "analysis_result"} \subseteq DOMAIN last.result

C22_Witness ==
    /\ last.op = "main.process_local_image"
    /\ HasFailed(last.events, "analysis")
    /\ last.result.status = "error"
    /\ "error" \in DOMAIN last.result

\* C23: process_multiple_images on an empty list returns an error record,
\* and no request goes to the recognition model or the analysis model.
C23_EmptyBatchIsError ==
    (last.op = "process_multiple_images" /\ last.input = <<>>)
    => /\ IsErrorRecord(last.result)
       /\ last.result.error = MsgNoImage
       /\ CountEvents(last.events, "recognition") = 0
       /\ CountEvents(last.events, "analysis") = 0

C23_Witness ==
    /\ last.op = "process_multiple_images"
    /\ last.input = <<>>
    /\ last.variant = "chat2table"
    /\ last.result.status = "error"
    /\ last.events = <<LogError(MsgNoImage)>>

RECURSIVE SumLens(_)
SumLens(seqs) ==
    IF seqs = <<>> THEN 0 ELSE Len(Head(seqs)) + SumLens(Tail(seqs))

\* The image blocks in the recognition requests that were answered.
ImagesRecognised(events) ==
    LET answered == SelectSeq(events, LAMBDA e : e.type = "recognition" /\ e.ok)
    IN  SumLens([i \in 1..Len(answered) |->
                    SelectSeq(answered[i].req.user, LAMBDA b : b.type = "image_url")])

\* C24 (as claimed): the image_count of a success record of
\* process_multiple_images is the number of images that the recognition
\* model received and answered.
C24_CountIsImagesSent ==
    (last.op = "process_multiple_images" /\ last.result.status = "success")
    => last.result.image_count = ImagesRecognised(last.events)

\* =============================================== claims, stages (cont.)
\* A recognition result handed to analyze_result that is marked as an error.
MarkedError(recognition_result) ==
    /\ "status" \in DOMAIN recognition_result
    /\ recognition_result.status = "error"

\* C25: analyze_result on a recognition result whose status is "error"
\* returns an error record and sends nothing to the analysis model; a
\* request to the analysis model is only ever made for a recognition result
\* that is not marked as an error.
C25_NoAnalysisOfFailedRecognition ==
    last.op = "analyze_result"
    => /\ MarkedError(last.input)
          => /\ "status" \in DOMAIN last.result
             /\ IsErrorRecord(last.result)
             /\ CountEvents(last.events, "analysis") = 0
       /\ CountEvents(last.events, "analysis") > 0 => ~MarkedError(last.input)

C25_Witness ==
    /\ last.op = "analyze_result"
    /\ MarkedError(last.input)
    /\ last.stream
    /\ last.fail = "none"
    /\ "status" \in DOMAIN last.result
    /\ last.result.status = "error"
    /\ CountEvents(last.events, "analysis") = 0

\* =============================================== claims, chain (cont.)
\* What the chain method named op returns and does for an input, a stream
\* flag and a provider behaviour.
ChainRun(op, chain_variant, input, stream, plan) ==
    IF op = "process_image"
    THEN ProcessImage(chain_variant, input, stream, plan)
    ELSE ProcessMultipleImages(chain_variant, input, stream, plan)

PlansOf(op) == IF op = "process_image" THEN SinglePlans ELSE Plans

\* C26: for process_image and process_multiple_images the stream flag does
\* not change the outcome: under every provider behaviour that gives the
\* record and the requests observed, the same call with the other value of
\* stream gives the same record and the same requests.
C26_StreamChangesNothing ==
    last.op \in ChainOps
    => \A plan \in PlansOf(last.op) :
          ChainRun(last.op, last.variant, last.input, last.stream, plan)
          = Out(last.result, last.events)
          => /\ ChainRun(last.op, last.variant, last.input, ~last.stream, plan).result
                = last.result
             /\ Cardinality(ModelCalls(
                    ChainRun(last.op, last.variant, last.input, ~last.stream, plan).events))
                = Cardinality(ModelCalls(last.events))

C26_Witness ==
    /\ last.op = "process_image"
    /\ last.stream
    /\ last.result.status = "success"
    /\ Cardinality(ModelCalls(last.events)) = 2
    /\ \E plan \in SinglePlans :
          ChainRun(last.op, last.variant, last.input, FALSE, plan)
          = Out(last.result, last.events)

\* ================================================ claims, files (cont.)
\* The positions in a get_input_files result of the pages of the PDF f.
PositionsOf(script, f, entries) ==
    {i \in 1..Len(entries) :
        /\ entries[i].page # NoPage
        /\ entries[i].data.kind = (IF script = "main" THEN "PIL" ELSE "bytes")
        /\ f.name \in Range(entries[i].data.val)}

IsInterval(S) == \A i, j \in S : \A k \in i..j : k \in S

\* The entries in the order get_input_files found them.
Discovered(script, dir) == ImageEntries(script, dir) \o PdfEntries(script, dir)

\* C27 (as claimed): the list get_input_files returns is in non-decreasing
\* order of page number with an image file counted as page 0, every image
\* file comes before every PDF page, entries of equal key are in the order
\* they were found in, and the pages of each PDF are next to one another.
C27_SortedPagesStayTogether ==
    last.op = "get_input_files"
    => LET entries == last.result
           found == Discovered(last.variant, last.input)
       IN  /\ \A i, j \in 1..Len(entries) :
                 i < j => SortKey(entries[i]) <= SortKey(entries[j])
           /\ \A i, j \in 1..Len(entries) :
                 (entries[i].page = NoPage /\ entries[j].page # NoPage) => i < j
           /\ \A key \in 0..MaxPages :
                 SelectSeq(entries, LAMBDA e : SortKey(e) = key)
                 = SelectSeq(found, LAMBDA e : SortKey(e) = key)
           /\ \A k \in 1..Len(last.input) :
                 (last.input[k].ext \in {"pdf", "PDF"} /\ last.input[k].ok)
                 => IsInterval(PositionsOf(last.variant, last.input[k], entries))

\* ================================================ claims, main.py (cont.)
PageFields == {"original_pdf", "page_number"}

\* C28: process_local_image with a page number returns, when the chain
\* succeeds, the chain's record with original_pdf = True, that page_number
\* and the image_url "pdf_page_<n>.png" in place of the missing one; without
\* a page number it returns the chain's record with none of this added; and
\* when anything fails it returns an error record that has no original_pdf,
\* no page_number and no image_url.
C28_PageFieldsOnSuccessOnly ==
    last.op = "main.process_local_image"
    => /\ (last.result.status = "success" /\ last.page # NoPage)
          => /\ PageFields \subseteq DOMAIN last.result
             /\ last.result.original_pdf = TRUE
             /\ last.result.page_number = last.page
             /\ ~FalsyText(last.result.image_url)
             /\ last.result.image_url = <<"pdf_page_", ToString(last.page), ".png">>
       /\ (last.result.status = "success" /\ last.page = NoPage)
          => /\ PageFields \cap DOMAIN last.result = {}
             /\ last.result.image_url = NoneText
       /\ last.result.status = "error"
          => (PageFields \cup {"image_url"}) \cap DOMAIN last.result = {}

C28_Witness ==
    /\ last.op = "main.process_local_image"
    /\ last.page = MaxPages
    /\ last.input.kind = "PIL"
    /\ last.result.status = "success"
    /\ last.result.original_pdf = TRUE
    /\ last.result.image_url = <<"pdf_page_", ToString(MaxPages), ".png">>

\* The record main() of main.py gets back from process_image, lines 318-329.
MainPyRecord(args, e, d, plan) ==
    LET k == GetApiKey(e, d)
        cfg == LegacyConfig([DefaultArgs EXCEPT !.api_key = k.key], k.env).obj
    IN  MainProcessImage(NewProcessor(cfg, TRUE), Str(InputOf(args)),
                         args.stream, plan).result

\* C29: in a run of main.py that got a record back from process_image, the
\* analysis is parsed and printed only when the record has no "error" key:
\* under every provider behaviour that gives the run observed, a record with
\* an "error" key means nothing was printed, and a record without one means
\* its parsed analysis was printed once.
C29_PrintOnlyWithoutError ==
    (last.op = "main.py" /\ last.result = "returned")
    => \A plan \in SinglePlans :
          MainPy(last.input, last.env, dotenv, plan) = last
          => LET record == MainPyRecord(last.input, last.env, dotenv, plan) IN
             /\ "error" \in DOMAIN record
                => CountEvents(last.events, "print") = 0
             /\ "error" \notin DOMAIN record
                => RequestsOf(last.events, "print")
                   = <<Ev("print", TRUE, ParseAnalysisResult(record.analysis_result))>>

C29_Witness ==
    /\ last.op = "main.py"
    /\ last.result = "returned"
    /\ HasFailed(last.events, "analysis")
    /\ CountEvents(last.events, "print") = 0
    /\ \E plan \in SinglePlans :
          /\ MainPy(last.input, last.env, dotenv, plan) = last
          /\ "error" \in DOMAIN MainPyRecord(last.input, last.env, dotenv, plan)

\* ===================================================== claims, logging
SinksOf(events) == {events[i].req.sink : i \in 1..Len(events)}

LinesTo(events, sink) ==
    Cardinality({i \in 1..Len(events) : events[i].req.sink = sink})

OnlyLoggerSetUp(name) ==
    \A n \in LoggerNames \ {name} : loggers[n].handlers = <<>>

\* C30: setup_logger on a logger that already has handlers leaves its
\* handlers as they are and raises nothing, so however often it is called
\* for a name the logger keeps the handlers the first call that added any
\* gave it, at most one for the console and one for the file; and a message
\* logged on the one logger set up is written at most once to each of them.
C30_SetupLoggerIdempotent ==
    /\ (last.op = "setup_logger" /\ last.before.handlers # <<>>)
       => /\ last.raised = None
          /\ last.result.handlers = last.before.handlers
          /\ loggers[last.input].handlers = last.before.handlers
    /\ \A n \in LoggerNames : \A kind \in {"console", "file"} :
          Cardinality({i \in 1..Len(loggers[n].handlers) :
                          loggers[n].handlers[i].kind = kind}) <= 1
    /\ (last.op = "log" /\ OnlyLoggerSetUp(last.input))
       => \A sink \in SinksOf(last.events) : LinesTo(last.events, sink) = 1

C30_Witness ==
    /\ last.op = "setup_logger"
    /\ last.input = "chat2table"
    /\ Len(last.before.handlers) = 2
    /\ last.result.handlers = last.before.handlers
    /\ OnlyLoggerSetUp("chat2table")

====
